---- MODULE Spec2Model ----
(***************************************************************************)
(* Lineage-driven metadata recommendation and propagation engine.          *)
(*                                                                         *)
(* Column names are sequences of one-character strings, so that the        *)
(* string operations of the code (lower(), replace("_", ""), "x in y")     *)
(* are computed, not assumed.  Scores are integers: a base score and a     *)
(* confidence are hundredths, a penalty is tenths, their product is        *)
(* thousandths.                                                            *)
(***************************************************************************)
EXTENDS Integers, Sequences, FiniteSets, TLC

VARIABLES
    rq,          \* the get_column_lineage call: column, links answered, depth
    mappings,    \* its result: column_mappings
    schema,      \* the metadata store: table -> column -> description
    lineage,     \* the lineage API: table -> column -> answer of _search_links
    form,        \* the shape in which the traverser hands a column's match on
    knowledge,   \* knowledge_json["relationships"] of the DescriptionPropagator
    mode,        \* --mode: "report" or "apply"
    queue,       \* the rows of steward_review_pending.csv
    pullLog,     \* what the last propagate_pull run logged, per column
    pull,        \* propagate_pull runs: how many, and how the last one ended
    sqlLogic,    \* table -> column -> the expression its defining statement binds
    frame,       \* the running _find_description_recursive call chain
    preview,     \* preview_propagation: position in the schema, rows so far
    scoreIn,     \* get_ranked_suggestions: the column, the terms, the embeddings
    scoreOut,    \* get_ranked_suggestions: the signals and the suggestions returned
    glossary,    \* the table, the terms and the catalog's answers of a glossary run
    linkStore,   \* the entry links the catalog holds, by link id
    applyLog,    \* per apply_terms call: the updates, their outcomes, the links after
    recsOut,     \* recommend_terms_for_table: the lineage read, the rows returned
    args,        \* a single call of one operation: its arguments
    ret          \* what that call returned or raised

(***************************************************************************)
(* Strings                                                                 *)
(***************************************************************************)
UpperLetters == <<"A","B","C","D","E","F","G","H","I","J","K","L","M",
                  "N","O","P","Q","R","S","T","U","V","W","X","Y","Z">>
LowerLetters == <<"a","b","c","d","e","f","g","h","i","j","k","l","m",
                  "n","o","p","q","r","s","t","u","v","w","x","y","z">>

\* str.lower(), one character
LowerChar(c) ==
    IF \E i \in DOMAIN UpperLetters : UpperLetters[i] = c
    THEN LowerLetters[CHOOSE i \in DOMAIN UpperLetters : UpperLetters[i] = c]
    ELSE c

Digits == {"0","1","2","3","4","5","6","7","8","9"}
IsAlnum(c) == c \in Digits \/ \E i \in DOMAIN LowerLetters : LowerLetters[i] = c

\* \w of the regular expressions
IsWordChar(c) == IsAlnum(LowerChar(c)) \/ c = "_"

\* the back quote character
BackQuote == "`'"

\* str.upper(), one character
UpperChar(c) ==
    IF \E i \in DOMAIN LowerLetters : LowerLetters[i] = c
    THEN UpperLetters[CHOOSE i \in DOMAIN LowerLetters : LowerLetters[i] = c]
    ELSE c

\* str.upper()
Upper(s) == [i \in DOMAIN s |-> UpperChar(s[i])]

\* str.lower()
Lower(s) == [i \in DOMAIN s |-> LowerChar(s[i])]

\* str.replace("_", "")
RemoveUnderscores(s) == SelectSeq(s, LAMBDA c : c # "_")

\* Python's "sub in s"
Contains(sub, s) ==
    \E i \in 0..(Len(s) - Len(sub)) : SubSeq(s, i + 1, i + Len(sub)) = sub

s_date   == <<"d","a","t","e">>
s_id     == <<"i","d">>
s_amount == <<"a","m","o","u","n","t">>
s_flag   == <<"f","l","a","g">>
s_is_    == <<"i","s","_">>

\* column names of the model
n_customer_id == <<"c","u","s","t","o","m","e","r","_","i","d">>
n_cust_id == <<"c","u","s","t","_","i","d">>
n_order_id    == <<"o","r","d","e","r","_","i","d">>
n_Order_Id    == <<"O","r","d","e","r","_","I","d">>
n_orderid     == <<"o","r","d","e","r","i","d">>
n_order       == <<"o","r","d","e","r">>
n_qty         == <<"q","t","y">>
n_order_date  == <<"o","r","d","e","r","_","d","a","t","e">>
n_date_id     == <<"d","a","t","e","_","i","d">>
n_amount      == <<"a","m","o","u","n","t">>
n_amount_flag == <<"a","m","o","u","n","t","_","f","l","a","g">>
n_Amount_Flag == <<"A","m","o","u","n","t","_","F","l","a","g">>

ColNames == { n_order_id, n_Order_Id, n_orderid, n_order, n_qty, n_order_date,
              n_date_id, n_amount, n_amount_flag, n_Amount_Flag }
SrcNames == { n_order_id, n_date_id, n_amount_flag }

(***************************************************************************)
(* TransformationEnricher.check_semantic_mismatch, in tenths               *)
(***************************************************************************)
check_semantic_mismatch(target_col, source_col) ==
    LET target_lower == Lower(target_col)
        source_lower == Lower(source_col)
    IN  IF Contains(s_date, target_lower) /\ Contains(s_id, source_lower) THEN 2
        ELSE IF Contains(s_id, target_lower) /\ Contains(s_date, source_lower) THEN 2
        ELSE IF Contains(s_amount, target_lower)
                /\ (Contains(s_flag, source_lower) \/ Contains(s_is_, source_lower)) THEN 5
        ELSE 10

(***************************************************************************)
(* LineageGraphTraverser.get_column_lineage                                *)
(***************************************************************************)
MaxLinks == 2             \* links in one searchLinks answer
TraverserMaxDepth == 3    \* get_column_lineage(..., max_depth=3)

\* a table of a dataset: what a fully qualified name or an entry name names
Entity(dataset_id, table_id) == [dataset |-> dataset_id, table |-> table_id]
NoName == Entity("", <<>>)   \* a missing or empty fullyQualifiedName
tA == Entity("d1", <<"a">>)
tB == Entity("d1", <<"b">>)
tC == Entity("d1", <<"c">>)
Null   == [null |-> TRUE] \* Python's None

Tables == {tA, tB}

\* the links a searchLinks answer is made of: table tA offers every field list,
\* table tB one of them (so that two links can tie), one link has no source
\* name and one has no source fields
FieldLists ==
    { <<n_order_id>>, <<n_date_id>>, <<n_amount_flag>>,
      <<n_order_id, n_date_id>>, <<n_date_id, n_order_id>>, <<n_amount_flag, n_order_id>> }

Links ==
    [fqn : {tA}, field : FieldLists \cup {<<>>}]
    \cup {[fqn |-> tB, field |-> <<n_order_id>>]}
    \cup {[fqn |-> NoName, field |-> <<n_order_id>>]}

RECURSIVE SeqsUpTo(_, _)
SeqsUpTo(S, n) ==
    IF n = 0 THEN {<<>>}
    ELSE SeqsUpTo(S, n - 1) \cup {Append(q, x) : q \in {p \in SeqsUpTo(S, n - 1) : Len(p) = n - 1}, x \in S}

BaseScoreCaseBlind(col, src_field, nfields) ==
    IF Lower(src_field) = Lower(col) THEN 100
    ELSE IF RemoveUnderscores(src_field) = RemoveUnderscores(col) THEN 90
    ELSE IF Contains(col, src_field) \/ Contains(src_field, col) THEN 80
    ELSE IF nfields = 1 THEN 70
    ELSE 50

\* lines 275-280: the base score, in hundredths
BaseScore(col, src_field, nfields) ==
    IF src_field = col THEN 100
    ELSE IF Lower(src_field) = Lower(col) THEN 95
    ELSE IF RemoveUnderscores(src_field) = RemoveUnderscores(col) THEN 90
    ELSE IF Contains(col, src_field) \/ Contains(src_field, col) THEN 80
    ELSE IF nfields = 1 THEN 70
    ELSE 50

\* lines 282-283: score = score * penalty, in thousandths
Score(col, src_field, nfields) ==
    BaseScore(col, src_field, nfields) * check_semantic_mismatch(col, src_field)

\* round(score, 2), in hundredths.  The only product with a third decimal is
\* 0.95 * 0.5, a double just below 0.475, which Python rounds to 0.47.
Round2(thousandths) == (thousandths + 4) \div 10

\* lines 287-294: the record kept for a candidate
MakeMatch(col, source_fqn, src_field, nfields, depth) ==
    [ source_fqn       |-> source_fqn,
      source_entity    |-> source_fqn,
      source_column    |-> src_field,
      confidence       |-> Round2(Score(col, src_field, nfields)),
      semantic_penalty |-> check_semantic_mismatch(col, src_field) < 10,
      hop_depth        |-> depth ]

BetterOrEqual(score, max_score) == score >= max_score

\* line 285: a candidate replaces the best so far only with a strictly higher score
Better(score, max_score) == score > max_score

\* lines 274-294: the loop over one link's source fields; best is
\* [match |-> best_match, max |-> max_score]
RECURSIVE ScanFields(_, _, _, _, _)
ScanFields(col, link, j, depth, best) ==
    IF j > Len(link.field) THEN best
    ELSE LET score == Score(col, link.field[j], Len(link.field))
         IN  ScanFields(col, link, j + 1, depth,
                 IF Better(score, best.max)
                 THEN [match |-> MakeMatch(col, link.fqn, link.field[j], Len(link.field), depth),
                       max   |-> score]
                 ELSE best)

\* lines 271-272: a link without a source name or without source fields is skipped
LinkUsable(link) == link.fqn # NoName /\ link.field # <<>>

\* lines 263-294: the loop over the links
RECURSIVE ScanLinks(_, _, _, _, _)
ScanLinks(col, links, i, depth, best) ==
    IF i > Len(links) THEN best
    ELSE ScanLinks(col, links, i + 1, depth,
             IF LinkUsable(links[i]) THEN ScanFields(col, links[i], 1, depth, best)
             ELSE best)

BestMatch(col, links, depth) ==
    ScanLinks(col, links, 1, depth, [match |-> Null, max |-> -1000]).match

SeqRange(q) == {q[i] : i \in DOMAIN q}

\* What _search_links does for one column: it returns links, or raises
\* (HTTP error, no credentials).
Answered(links) == [raises |-> FALSE, links |-> links]
Fail == [raises |-> TRUE, links |-> <<>>]

\* lines 246-302.  search[c] is what _search_links does for column c.
GetColumnLineage(search, target_columns, depth, max_depth) ==
    IF depth >= max_depth THEN <<>>
    ELSE LET best  == [c \in SeqRange(target_columns) |->
                          IF search[c].raises \/ search[c].links = <<>> THEN Null
                          ELSE BestMatch(c, search[c].links, depth)]
             found == {c \in SeqRange(target_columns) : best[c] # Null}
         IN  [c \in found |-> best[c]]

(***************************************************************************)
(* One upstream resolution call                                            *)
(***************************************************************************)
varsResolve == <<rq, mappings>>
varsCall == <<args, ret>>

\* no single call is under way
NotReturned == [done |-> FALSE]
CallIdle == args = [op |-> "none"] /\ ret = NotReturned

\* not yet called
Pending == [pending |-> TRUE]

Answers == {Answered(l) : l \in SeqsUpTo(Links, MaxLinks)} \cup {Fail}

\* the call to make: the column asked for, what the lineage API will answer,
\* and the depth argument
ResolveInputs ==
    /\ rq \in [col : ColNames, answer : Answers, depth : 0..TraverserMaxDepth]
    /\ mappings = Pending

\* get_column_lineage(entry, [col], depth)
ResolveCall ==
    /\ mappings = Pending
    /\ mappings' = GetColumnLineage([c \in {rq.col} |-> rq.answer], <<rq.col>>,
                                     rq.depth, TraverserMaxDepth)
    /\ UNCHANGED rq

(***************************************************************************)
(* The metadata store and propagate_pull                                   *)
(***************************************************************************)
MaxMappings == 2    \* column mappings in the insights relationship
MaxRuns == 2        \* propagate_pull runs in a row

AutoApplyAbove == 90   \* if confidence > 0.90
ReviewFrom == 70       \* elif confidence >= 0.70

\* a column description: empty (None or ""), one typed in by somebody, or the
\* text propagate_pull composes from an insights mapping
\* description texts, as sequences of characters
d_old == <<"o","l","d">>
d_key == <<"k","e","y">>
d_key_dot == <<"k","e","y",".">>
d_same == <<"s","a","m","e">>

NoDesc == [kind |-> "none", text |-> <<>>]
Plain(text) == [kind |-> "plain", text |-> text]
InsightsDesc(explanation) == [kind |-> "insights", text |-> explanation]

NeverDescribed(d) == FALSE

\* Python truthiness of a description
HasDesc(d) == d # NoDesc

\* How the traverser's result for a column reaches its callers.
\* LineageGraphTraverser.get_column_lineage stores one match record per column
\* (form "record"); propagate_pull and _find_description_recursive read it with
\* .get(col, []) and [0], which a list of matches would answer (form "list",
\* what a traverser handing on candidate lists would give).
ColumnSources(upstream_map, col) ==
    IF col \in DOMAIN upstream_map
    THEN [form |-> form, items |-> <<upstream_map[col]>>]
    ELSE [form |-> "list", items |-> <<>>]

\* sources[0]: the first element of a list, KeyError(0) on a match record
IndexZeroRaises(sources) == sources.form = "record"
IndexZero(sources) == sources.items[1]

\* fetch_table_schema: {} for a table the store does not hold
FetchTableSchema(store, table) ==
    IF table \in DOMAIN store THEN store[table] ELSE <<>>

\* update_column_description: only a column of the table's schema is rewritten
UpdateColumnDescription(store, table, col, desc) ==
    IF table \in DOMAIN store /\ col \in DOMAIN store[table]
    THEN [store EXCEPT ![table][col] = desc]
    ELSE store

\* log_for_steward_review: one more row, never read back
LogForStewardReview(rows, table, col, desc, confidence, source_info) ==
    Append(rows, [table |-> table, column |-> col, proposed_description |-> desc,
                  confidence |-> confidence, source |-> source_info,
                  status |-> "PENDING"])

\* lines 94-114: the candidate from the lineage API, if its source is described
LineageCandidates(store, sources) ==
    LET lineage_source == IndexZero(sources)
        src_schema == FetchTableSchema(store, lineage_source.source_entity)
        source_col == lineage_source.source_column
    IN  IF source_col \in DOMAIN src_schema /\ HasDesc(src_schema[source_col])
        THEN << [source_table |-> lineage_source.source_entity,
                 source_col   |-> source_col,
                 confidence   |-> 100,
                 type         |-> "DIRECT_PASSTHROUGH",
                 desc         |-> src_schema[source_col]] >>
        ELSE <<>>

\* lines 118-130: one candidate per insights mapping of the target column
RECURSIVE MappingCandidates(_, _, _, _)
MappingCandidates(rel, target_col, i, acc) ==
    IF i > Len(rel.column_mappings) THEN acc
    ELSE LET mapping == rel.column_mappings[i]
         IN  MappingCandidates(rel, target_col, i + 1,
                 IF mapping.target_col = target_col
                 THEN Append(acc, [source_table |-> rel.source_table,
                                   source_col   |-> mapping.source_col,
                                   confidence   |-> mapping.confidence,
                                   type         |-> mapping.type,
                                   desc         |-> InsightsDesc(mapping.explanation)])
                 ELSE acc)

RECURSIVE InsightCandidates(_, _, _, _, _)
InsightCandidates(rels, target_table, target_col, i, acc) ==
    IF i > Len(rels) THEN acc
    ELSE InsightCandidates(rels, target_table, target_col, i + 1,
             IF rels[i].target_table = target_table
             THEN MappingCandidates(rels[i], target_col, 1, acc)
             ELSE acc)

\* max(candidates, key=confidence): the first candidate of the highest confidence
RECURSIVE MaxByConfidence(_, _, _)
MaxByConfidence(candidates, i, best) ==
    IF i > Len(candidates) THEN best
    ELSE MaxByConfidence(candidates, i + 1,
             IF candidates[i].confidence > best.confidence THEN candidates[i] ELSE best)

DecisionAutoAtThreshold(confidence) ==
    IF confidence >= AutoApplyAbove THEN "AUTO_APPLY"
    ELSE IF confidence >= ReviewFrom THEN "REVIEW"
    ELSE "SKIP"

\* lines 138-147: which branch a confidence takes
Decision(confidence) ==
    IF confidence > AutoApplyAbove THEN "AUTO_APPLY"
    ELSE IF confidence >= ReviewFrom THEN "REVIEW"
    ELSE "SKIP"

\* lines 132-149 for one column; st is [store, rows, log, raised]
Decide(st, run_mode, target_table, target_col, candidates) ==
    IF candidates = <<>>
    THEN [st EXCEPT !.log = Append(@, [column |-> target_col, event |-> "NO_CANDIDATES",
                                        confidence |-> 0, source |-> <<>>, desc |-> NoDesc])]
    ELSE LET best == MaxByConfidence(candidates, 2, candidates[1])
             source_info == <<best.source_table, best.source_col>>
             entry == [column |-> target_col, event |-> Decision(best.confidence),
                       confidence |-> best.confidence, source |-> source_info,
                       desc |-> best.desc]
         IN  IF Decision(best.confidence) = "AUTO_APPLY"
             THEN [st EXCEPT !.log = Append(@, entry),
                             !.store = IF run_mode = "apply"
                                       THEN UpdateColumnDescription(@, target_table, target_col, best.desc)
                                       ELSE @]
             ELSE IF Decision(best.confidence) = "REVIEW"
             THEN [st EXCEPT !.log = Append(@, entry),
                             !.rows = IF run_mode = "apply"
                                      THEN LogForStewardReview(@, target_table, target_col,
                                               best.desc, best.confidence, source_info)
                                      ELSE @]
             ELSE [st EXCEPT !.log = Append(@, entry)]

\* lines 85-149: the loop body for one target column
PullColumn(st, run_mode, rels, target_table, target_schema, upstream_map, target_col) ==
    IF HasDesc(target_schema[target_col])
    THEN [st EXCEPT !.log = Append(@, [column |-> target_col, event |-> "HAS_DESCRIPTION",
                                        confidence |-> 0, source |-> <<>>, desc |-> NoDesc])]
    ELSE LET lineage_sources == ColumnSources(upstream_map, target_col)
         IN  IF lineage_sources.items # <<>> /\ IndexZeroRaises(lineage_sources)
             THEN [st EXCEPT !.raised = TRUE]
             ELSE LET fromLineage == IF lineage_sources.items # <<>>
                                     THEN LineageCandidates(st.store, lineage_sources)
                                     ELSE <<>>
                      candidates == IF fromLineage # <<>> THEN fromLineage
                                    ELSE InsightCandidates(rels, target_table, target_col, 1, <<>>)
                  IN  Decide(st, run_mode, target_table, target_col, candidates)

\* the loop over the target columns, in schema order; an exception ends it
RECURSIVE PullLoop(_, _, _, _, _, _, _, _)
PullLoop(st, run_mode, rels, target_table, target_schema, upstream_map, cols, i) ==
    IF i > Len(cols) \/ st.raised THEN st
    ELSE PullLoop(PullColumn(st, run_mode, rels, target_table, target_schema,
                             upstream_map, cols[i]),
                  run_mode, rels, target_table, target_schema, upstream_map, cols, i + 1)

\* the columns of a table, in schema order
ColumnOrder == <<n_order_id, n_orderid, n_customer_id, n_qty>>
ColumnsOf(table_schema) == SelectSeq(ColumnOrder, LAMBDA c : c \in DOMAIN table_schema)

\* what _search_links answers for the columns of a table
SearchOf(table, cols) ==
    [c \in SeqRange(cols) |->
        IF table \in DOMAIN lineage /\ c \in DOMAIN lineage[table]
        THEN lineage[table][c] ELSE Answered(<<>>)]

\* propagate_pull, lines 69-151
PropagatePull(store, rows, run_mode, rels, target_table) ==
    LET target_schema == FetchTableSchema(store, target_table)
        cols == ColumnsOf(target_schema)
        start == [store |-> store, rows |-> rows, log |-> <<>>, raised |-> FALSE]
    IN  IF target_schema = <<>> THEN start
        ELSE PullLoop(start, run_mode, rels, target_table, target_schema,
                      GetColumnLineage(SearchOf(target_table, cols), cols, 0, TraverserMaxDepth),
                      cols, 1)

varsWorld == <<schema, lineage, form, knowledge, mode>>
varsPull == <<queue, pullLog, pull>>

TargetTable == tC

PullIdle == queue = <<>> /\ pullLog = <<>> /\ pull = [runs |-> 0, ended |-> "none"]

ConfValues == {69, 70, 90, 91}

Mappings ==
    [target_col : {n_order_id, n_qty}, source_col : {n_order}, confidence : ConfValues,
     type : {"RENAME"}, explanation : {d_same}]

\* the worlds propagate_pull is run in: target table tC with two columns, each
\* described or not; column order_id with or without a lineage link to tA.order_id,
\* tA.order_id described or not; an insights relationship tA -> tC
PullWorld ==
    /\ \E d1 \in {NoDesc, Plain(d_old)}, d2 \in {NoDesc, Plain(d_old)},
          ds \in {NoDesc, Plain(d_key)} :
          schema = [t \in {tA, TargetTable} |->
                      IF t = tA THEN [c \in {n_order_id} |-> ds]
                      ELSE [c \in {n_order_id, n_qty} |-> IF c = n_order_id THEN d1 ELSE d2]]
    /\ \E l \in {<<>>, << [fqn |-> tA, field |-> <<n_order_id>>] >>} :
          lineage = [t \in {TargetTable} |-> [c \in {n_order_id, n_qty} |->
                        IF c = n_order_id THEN Answered(l) ELSE Answered(<<>>)]]
    /\ form \in {"record", "list"}
    /\ \E ms \in SeqsUpTo(Mappings, MaxMappings) :
          knowledge = << [target_table |-> TargetTable, source_table |-> tA,
                          column_mappings |-> ms] >>
    /\ mode \in {"report", "apply"}

WorldIdle ==
    /\ schema = <<>> /\ lineage = <<>> /\ form = "record" /\ knowledge = <<>>
    /\ mode = "report"

\* one run of propagate_pull on the target table
PullRun ==
    /\ pull.runs < MaxRuns
    /\ \E out \in {PropagatePull(schema, queue, mode, knowledge, TargetTable)} :
           /\ schema' = out.store
           /\ queue' = out.rows
           /\ pullLog' = out.log
           /\ pull' = [runs |-> pull.runs + 1,
                       ended |-> IF out.raised THEN "KeyError" ELSE "finished"]
    /\ UNCHANGED <<lineage, form, knowledge, mode>>

(***************************************************************************)
(* LineagePlugin._find_description_recursive and preview_propagation       *)
(***************************************************************************)
MaxChain == 5          \* upstream tables on the walk from the previewed table
PluginMaxDepth == 5    \* _find_description_recursive(..., max_depth: int = 5)
LogicConfidence == 70  \* max(source['confidence'], 0.7)

s_cast == <<"c","a","s","t","(">>

\* re.search(rf"\b{src_col}\b", logic_lower): the expression is kept as its
\* sequence of words, a name occurs as a whole word when it is one of them
MentionsWord(logic, src_col) ==
    \E i \in DOMAIN logic : Lower(logic[i]) = Lower(src_col)

\* lines 98-110: the expression bound to the column by the table's statement;
\* empty where there is none (None and '' alike fail the tests "if logic")
LogicOf(table, column) ==
    IF table \in DOMAIN sqlLogic /\ column \in DOMAIN sqlLogic[table]
    THEN sqlLogic[table][column] ELSE <<>>

\* lines 112-123: sources[0], replaced by the first source the expression
\* mentions, whose confidence is raised to 0.7
SelectSource(items, logic) ==
    IF logic # <<>> /\ \E i \in DOMAIN items : MentionsWord(logic, items[i].source_column)
    THEN LET i == CHOOSE k \in DOMAIN items :
                    /\ MentionsWord(logic, items[k].source_column)
                    /\ \A j \in 1..(k - 1) : ~MentionsWord(logic, items[j].source_column)
         IN  [items[i] EXCEPT !.confidence = IF @ > LogicConfidence THEN @ ELSE LogicConfidence]
    ELSE items[1]

NoFrame == [status |-> "idle", target |-> NoName, column |-> <<>>, depth |-> 0,
            acc |-> <<>>, result |-> Null, lookups |-> 0]

StartFrame(target_fqn, column) ==
    [status |-> "run", target |-> target_fqn, column |-> column, depth |-> 0,
     acc |-> <<>>, result |-> Null, lookups |-> 0]

\* lines 125-150: the source column's description decides: found, or one hop up
CheckSource(f, source, acc) ==
    IF source.source_fqn \notin DOMAIN schema
       \/ source.source_column \notin DOMAIN schema[source.source_fqn]
    THEN [f EXCEPT !.status = "none", !.acc = acc]
    ELSE IF HasDesc(schema[source.source_fqn][source.source_column])
    THEN [f EXCEPT !.status = "found", !.acc = acc,
                   !.result = [source_entity     |-> source.source_entity,
                               source_column     |-> source.source_column,
                               description       |-> schema[source.source_fqn][source.source_column],
                               confidence        |-> source.confidence,
                               hop_depth         |-> f.depth,
                               accumulated_logic |-> acc]]
    ELSE [f EXCEPT !.target = source.source_fqn, !.column = source.source_column,
                   !.depth = f.depth + 1, !.acc = acc]

Prepended(acc, logic) == IF logic # <<>> THEN <<logic>> \o acc ELSE acc

\* lines 107-108: if logic: accumulated_logic.append(logic)
Accumulate(acc, logic) == IF logic # <<>> THEN Append(acc, logic) ELSE acc

\* One invocation of _find_description_recursive (lines 81-150) on frame f.
\* KeyError(0) of sources[0] leaves the outermost invocation uncaught; raised in
\* a nested one it is caught by the caller's except (line 147), which returns None.
Hop(f) ==
    IF f.depth >= PluginMaxDepth THEN [f EXCEPT !.status = "none"]
    ELSE LET upstream == GetColumnLineage(SearchOf(f.target, <<f.column>>), <<f.column>>,
                                          f.depth, TraverserMaxDepth)
             sources  == ColumnSources(upstream, f.column)
             logic    == LogicOf(f.target, f.column)
             acc      == Accumulate(f.acc, logic)
             g        == [f EXCEPT !.lookups = f.lookups + 1]
         IN  IF sources.items = <<>> THEN [g EXCEPT !.status = "none"]
             ELSE IF IndexZeroRaises(sources)
             THEN [g EXCEPT !.status = IF f.depth = 0 THEN "KeyError" ELSE "none", !.acc = acc]
             ELSE CheckSource(g, SelectSource(sources.items, logic), acc)

HasAny(kws, s) == \E kw \in kws : Contains(kw, s)

\* the keywords describe_sql_logic looks for in the upper-cased expression
k_CAST == <<"C","A","S","T","(">>
k_SAFE_CAST == <<"S","A","F","E","_","C","A","S","T","(">>
k_COALESCE == <<"C","O","A","L","E","S","C","E","(">>
k_IFNULL == <<"I","F","N","U","L","L","(">>
k_NULLIF == <<"N","U","L","L","I","F","(">>
k_ROUND == <<"R","O","U","N","D","(">>
k_CEIL == <<"C","E","I","L","(">>
k_FLOOR == <<"F","L","O","O","R","(">>
k_TRUNC == <<"T","R","U","N","C","(">>
k_UPPER == <<"U","P","P","E","R","(">>
k_LOWER == <<"L","O","W","E","R","(">>
k_TRIM == <<"T","R","I","M","(">>
k_CONCAT == <<"C","O","N","C","A","T","(">>
k_SUBSTR == <<"S","U","B","S","T","R","(">>
k_EXTRACT == <<"E","X","T","R","A","C","T","(">>
k_CASE == <<"C","A","S","E">>
k_IF == <<"I","F","(">>
k_SAFE_dot == <<"S","A","F","E",".">>
s_coalesce == <<"c","o","a","l","e","s","c","e","(">>

\* the text of an expression kept as its list of words
RECURSIVE JoinWords(_)
JoinWords(words) ==
    IF words = <<>> THEN <<>>
    ELSE IF Len(words) = 1 THEN words[1]
    ELSE words[1] \o <<" ">> \o JoinWords(Tail(words))

AlwaysDigit(text) == TRUE

\* line 111: any(char.isdigit() for char in expr)
HasDigit(text) == \E i \in DOMAIN text : text[i] \in Digits

\* line 111: any(op in expr for op in ["*", "/", "+", "-"])
HasOperator(text) == \E i \in DOMAIN text : text[i] \in {"*", "/", "+", "-"}

\* lines 94-129: the family of wording chosen for the expression; every wording
\* quotes the expression
describe_sql_logic(expr) ==
    LET text       == JoinWords(expr)
        expr_upper == Upper(text)
        kind ==
            IF HasAny({k_CAST, k_SAFE_CAST}, expr_upper) THEN "converted"
            ELSE IF HasAny({k_COALESCE, k_IFNULL, k_NULLIF}, expr_upper) THEN "null-handling"
            ELSE IF HasAny({k_ROUND, k_CEIL, k_FLOOR, k_TRUNC}, expr_upper) THEN "rounded"
            ELSE IF HasOperator(text) /\ HasDigit(text) THEN "adjusted"
            ELSE IF HasAny({k_UPPER, k_LOWER, k_TRIM, k_CONCAT, k_SUBSTR}, expr_upper)
            THEN "string"
            ELSE IF HasAny({k_EXTRACT}, expr_upper) THEN "temporal"
            ELSE IF HasAny({k_CASE, k_IF}, expr_upper) THEN "conditional"
            ELSE IF HasAny({k_SAFE_dot}, expr_upper) THEN "safe"
            ELSE "calculated"
    IN  IF text = <<>> THEN [kind |-> "", expr |-> <<>>]
        ELSE [kind |-> kind, expr |-> expr]

s_price == <<"p","r","i","c","e">>
s_cost == <<"c","o","s","t">>
s_discount == <<"d","i","s","c","o","u","n","t">>
s_tax == <<"t","a","x">>
s_time == <<"t","i","m","e">>
s_timestamp == <<"t","i","m","e","s","t","a","m","p">>
s_category == <<"c","a","t","e","g","o","r","y">>
s_type == <<"t","y","p","e">>
s_status == <<"s","t","a","t","u","s">>
d_monetary == <<"M","o","n","e","t","a","r","y"," ","v","a","l","u","e",".">>
d_temporal == <<"T","e","m","p","o","r","a","l"," ","a","t","t","r","i","b","u","t","e",".">>
d_classification == <<"C","l","a","s","s","i","f","i","c","a","t","i","o","n",".">>


\* lines 137-143: the wording used when the source text is empty
FallbackExplanation(target_col) ==
    LET target_lower == Lower(target_col)
    IN  IF HasAny({s_amount, s_price, s_cost, s_discount, s_tax}, target_lower) THEN d_monetary
        ELSE IF HasAny({s_date, s_timestamp, s_time}, target_lower) THEN d_temporal
        ELSE IF HasAny({s_category, s_type, s_status}, target_lower) THEN d_classification
        ELSE <<>>

\* str.strip()
RECURSIVE Strip(_)
Strip(s) ==
    IF s = <<>> THEN s
    ELSE IF Head(s) = " " THEN Strip(Tail(s))
    ELSE IF s[Len(s)] = " " THEN Strip(SubSeq(s, 1, Len(s) - 1))
    ELSE s

\* lines 149-151
WithoutTrailingPeriod(s) ==
    IF s # <<>> /\ s[Len(s)] = "." THEN SubSeq(s, 1, Len(s) - 1) ELSE s

NeverTrivial(hint, target_col) == FALSE

\* line 163: a hint, a list of words, is a passthrough when it matches
\* ^[\w\.]+$ or is the target column between back quotes
IsTrivial(hint, target_col) ==
    \/ /\ Len(hint) = 1 /\ hint[1] # <<>>
       /\ \A i \in DOMAIN hint[1] : IsWordChar(hint[1][i]) \/ hint[1][i] = "."
    \/ hint = <<(<<BackQuote>> \o target_col \o <<BackQuote>>)>>

\* lines 158-170: each meaningful hint is worded and appended unless its wording
\* is in the description already
RECURSIVE AppendHints(_, _, _, _)
AppendHints(hints, sql_hints, target_col, i) ==
    IF i > Len(sql_hints) THEN hints
    ELSE LET logic_hint == describe_sql_logic(sql_hints[i])
         IN  AppendHints(IF ~IsTrivial(sql_hints[i], target_col) /\ logic_hint.kind # ""
                            /\ \A j \in DOMAIN hints : hints[j] # logic_hint
                         THEN Append(hints, logic_hint) ELSE hints,
                         sql_hints, target_col, i + 1)

\* TransformationEnricher.enrich_description: the text, then the hints worded
\* after it
enrich_description(target_col, source_col, original_desc, sql_hints) ==
    LET description == IF original_desc.text # <<>> THEN original_desc.text
                       ELSE FallbackExplanation(target_col)
    IN  [text  |-> WithoutTrailingPeriod(Strip(description)),
         hints |-> AppendHints(<<>>, sql_hints, target_col, 1)]

\* line 189
TypeLabel(hop_depth) ==
    [base |-> "Lineage", hop |-> IF hop_depth > 0 THEN <<hop_depth>> ELSE <<>>]

\* lines 173-190: the row of the preview for a match
PreviewRow(field_name, match) ==
    [Target_Column        |-> field_name,
     Source               |-> match.source_entity,
     Source_Column        |-> match.source_column,
     Confidence           |-> match.confidence,
     Proposed_Description |-> enrich_description(field_name, match.source_column,
                                                 match.description, match.accumulated_logic),
     Type                 |-> TypeLabel(match.hop_depth)]

varsFind == <<sqlLogic, frame, preview>>

TableName(i) == Entity("d1", <<"t", <<"0", "1", "2", "3", "4", "5", "6", "7">>[i + 1]>>)
PreviewTable == TableName(0)

\* no preview has been started
FindStart ==
    /\ frame = NoFrame
    /\ preview = [status |-> "idle", i |-> 1, waiting |-> FALSE, candidates |-> <<>>]

FindIdle == sqlLogic = <<>> /\ FindStart

\* The worlds a preview runs in.  The previewed table t0 has a column order_id
\* (or orderid) without description and a column qty; upstream of t0 lies a walk
\* t1 .. tL, each table's order_id linked to the next one's, whose last table has
\* no upstream or is linked back to a table of the walk; at most one table of
\* the walk carries a description; each statement binds the column to a cast of
\* its upstream column, to the bare upstream column, or is not available.
FindWorld ==
    \E L \in 0..MaxChain, renamed \in BOOLEAN, sq \in {"none", "cast", "plain"},
       qd \in {NoDesc, Plain(d_old)}, dd \in {d_key, d_key_dot} :
    \E back \in -1..L, described \in 0..L :
       LET col(i) == IF renamed /\ i = 0 THEN n_orderid ELSE n_order_id
           up(i)  == IF i < L
                     THEN << [fqn |-> TableName(i + 1), field |-> <<col(i + 1)>>] >>
                     ELSE IF back >= 0
                     THEN << [fqn |-> TableName(back), field |-> <<col(back)>>] >>
                     ELSE <<>>
           idx(t) == CHOOSE i \in 0..L : TableName(i) = t
           tabs   == {TableName(i) : i \in 0..L}
       IN  /\ schema = [t \in tabs |->
                 IF t = PreviewTable
                 THEN [c \in {col(0), n_qty} |-> IF c = n_qty THEN qd ELSE NoDesc]
                 ELSE [c \in {n_order_id} |->
                          IF idx(t) = described THEN Plain(dd) ELSE NoDesc]]
           /\ lineage = [t \in tabs |->
                 [c \in DOMAIN (IF t = PreviewTable
                                THEN [x \in {col(0), n_qty} |-> 0]
                                ELSE [x \in {n_order_id} |-> 0]) |->
                     IF c = n_qty THEN Answered(<<>>) ELSE Answered(up(idx(t)))]]
           /\ sqlLogic = IF sq = "none" THEN <<>>
                         ELSE [t \in {x \in tabs : up(idx(x)) # <<>>} |->
                                 [c \in {col(idx(t))} |->
                                    IF sq = "cast"
                                    THEN <<s_cast, up(idx(t))[1].field[1], <<")">>>>
                                    ELSE <<up(idx(t))[1].field[1]>>]]
           /\ form \in {"record", "list"}
           /\ knowledge = <<>> /\ mode = "report"

PreviewColumns == ColumnsOf(schema[PreviewTable])

\* preview_propagation, lines 156-163: the table is read, the list is empty
PreviewStart ==
    /\ preview.status = "idle"
    /\ preview' = [preview EXCEPT !.status = "scan"]
    /\ UNCHANGED <<frame, sqlLogic, varsWorld, rq, mappings, queue, pullLog, pull, scoreIn, scoreOut,
                   glossary, linkStore, applyLog, recsOut, args, ret>>

\* lines 164-171: the next field is skipped for its description, or searched
PreviewField ==
    /\ preview.status = "scan" /\ ~preview.waiting
    /\ preview.i <= Len(PreviewColumns)
    /\ IF HasDesc(schema[PreviewTable][PreviewColumns[preview.i]])
       THEN /\ preview' = [preview EXCEPT !.i = @ + 1]
            /\ UNCHANGED frame
       ELSE /\ preview' = [preview EXCEPT !.waiting = TRUE]
            /\ frame' = StartFrame(PreviewTable, PreviewColumns[preview.i])
    /\ UNCHANGED <<sqlLogic, varsWorld, rq, mappings, queue, pullLog, pull, scoreIn, scoreOut,
                   glossary, linkStore, applyLog, recsOut, args, ret>>

\* one invocation of _find_description_recursive
FindHop ==
    /\ preview.waiting /\ frame.status = "run"
    /\ frame' = Hop(frame)
    /\ UNCHANGED <<preview, sqlLogic, varsWorld, rq, mappings, queue, pullLog, pull, scoreIn, scoreOut,
                   glossary, linkStore, applyLog, recsOut, args, ret>>

\* lines 173-192: the search has answered; KeyError leaves preview_propagation
FieldDone ==
    /\ preview.waiting /\ frame.status \in {"found", "none", "KeyError"}
    /\ preview' =
         IF frame.status = "KeyError"
         THEN [preview EXCEPT !.status = "KeyError", !.waiting = FALSE]
         ELSE [preview EXCEPT !.waiting = FALSE, !.i = @ + 1,
                 !.candidates = IF frame.status = "found"
                                THEN Append(@, PreviewRow(PreviewColumns[preview.i], frame.result))
                                ELSE @]
    /\ UNCHANGED <<frame, sqlLogic, varsWorld, rq, mappings, queue, pullLog, pull, scoreIn, scoreOut,
                   glossary, linkStore, applyLog, recsOut, args, ret>>

\* lines 194-196: the frame of candidates is returned
PreviewReturn ==
    /\ preview.status = "scan" /\ ~preview.waiting
    /\ preview.i > Len(PreviewColumns)
    /\ preview' = [preview EXCEPT !.status = "returned"]
    /\ UNCHANGED <<frame, sqlLogic, varsWorld, rq, mappings, queue, pullLog, pull, scoreIn, scoreOut,
                   glossary, linkStore, applyLog, recsOut, args, ret>>

(***************************************************************************)
(* SimilarityEngine                                                        *)
(***************************************************************************)
MaxTerms == 2                \* glossary terms handed to get_ranked_suggestions
LexicalWeight == 30          \* self.weights["lexical"], in hundredths
SemanticWeight == 50         \* self.weights["semantic"]
ConflictPenalty == 30        \* score -= 0.30
EntityBoost == 15            \* score += 0.15
ConceptBoost == 10           \* score += 0.1
ConceptPenalty == 35         \* score -= 0.35
WordBoost == 5               \* score += 0.05
BaseThreshold == 30          \* score >= 0.30
CompetitiveAbove == 45       \* top_score > 0.45
CompetitiveShare == 7        \* top_score * 0.7, in tenths
TopN == 5                    \* suggestions[:5]


s_customer == <<"c","u","s","t","o","m","e","r">>
s_order == <<"o","r","d","e","r">>
s_item == <<"i","t","e","m">>
s_product == <<"p","r","o","d","u","c","t">>
s_transaction == <<"t","r","a","n","s","a","c","t","i","o","n">>
s_user == <<"u","s","e","r">>
s_account == <<"a","c","c","o","u","n","t">>
s_membership == <<"m","e","m","b","e","r","s","h","i","p">>
s_loyalty == <<"l","o","y","a","l","t","y">>
s_cust == <<"c","u","s","t">>
s_prod == <<"p","r","o","d">>
s_txn == <<"t","x","n">>
s_trans == <<"t","r","a","n","s">>
s_acc == <<"a","c","c">>
s_identifier == <<"i","d","e","n","t","i","f","i","e","r">>
s_pk == <<"p","k">>
s_fk == <<"f","k">>
s_key == <<"k","e","y">>
s_code == <<"c","o","d","e">>
s_sku == <<"s","k","u">>
s_total == <<"t","o","t","a","l">>
s_sum == <<"s","u","m">>
s_value == <<"v","a","l","u","e">>
s_subtotal == <<"s","u","b","t","o","t","a","l">>
s_ts == <<"t","s">>
s_added == <<"a","d","d","e","d">>
s_at == <<"a","t">>
s_created == <<"c","r","e","a","t","e","d">>
s_updated == <<"u","p","d","a","t","e","d">>
s_group == <<"g","r","o","u","p">>
s_class == <<"c","l","a","s","s">>
s_genre == <<"g","e","n","r","e">>
s_level == <<"l","e","v","e","l">>

\* _normalize: lower case, every character outside [a-z0-9] a blank, stripped
Normalize(text) ==
    Strip([i \in DOMAIN text |->
             IF IsAlnum(LowerChar(text[i])) THEN LowerChar(text[i]) ELSE " "])

\* str.split(): the maximal runs of non-blank characters, in order
RECURSIVE SplitWords(_, _, _, _)
SplitWords(s, i, cur, acc) ==
    IF i > Len(s) THEN (IF cur = <<>> THEN acc ELSE Append(acc, cur))
    ELSE IF s[i] = " "
    THEN SplitWords(s, i + 1, <<>>, IF cur = <<>> THEN acc ELSE Append(acc, cur))
    ELSE SplitWords(s, i + 1, Append(cur, s[i]), acc)

\* set(self._normalize(text).split())
Tokens(text) == SeqRange(SplitWords(Normalize(text), 1, <<>>, <<>>))

\* aliases, then entities, each in the order of the source; "" stands for None
EntityAliases ==
    << [word |-> s_cust, entity |-> "customer"], [word |-> s_prod, entity |-> "product"],
       [word |-> s_txn, entity |-> "transaction"], [word |-> s_trans, entity |-> "transaction"],
       [word |-> s_acc, entity |-> "account"] >>
EntityWords ==
    << [word |-> s_customer, entity |-> "customer"], [word |-> s_order, entity |-> "order"],
       [word |-> s_item, entity |-> "item"], [word |-> s_product, entity |-> "product"],
       [word |-> s_transaction, entity |-> "transaction"], [word |-> s_user, entity |-> "user"],
       [word |-> s_account, entity |-> "account"],
       [word |-> s_membership, entity |-> "membership"],
       [word |-> s_loyalty, entity |-> "loyalty"] >>

\* the entry of the first word of a table that is among the tokens, "" if none
FirstListed(table, tokens) ==
    IF \E i \in DOMAIN table : table[i].word \in tokens
    THEN table[CHOOSE i \in DOMAIN table :
                 /\ table[i].word \in tokens
                 /\ \A j \in 1..(i - 1) : table[j].word \notin tokens].entity
    ELSE ""

\* _get_primary_entity
GetPrimaryEntity(text) ==
    FirstListed(EntityAliases \o EntityWords, Tokens(text))

ConceptWords(concept, ws) == [i \in DOMAIN ws |-> [word |-> ws[i], entity |-> concept]]

ConceptMap ==
    ConceptWords("id", <<s_id, s_identifier, s_pk, s_fk, s_key, s_code, s_sku>>)
    \o ConceptWords("amount", <<s_amount, s_price, s_total, s_sum, s_cost, s_value,
                                s_subtotal, s_tax, s_discount>>)
    \o ConceptWords("timestamp", <<s_timestamp, s_date, s_time, s_ts, s_added, s_at,
                                   s_created, s_updated>>)
    \o ConceptWords("category", <<s_category, s_group, s_type, s_class, s_genre, s_level>>)

\* _get_concept
GetConcept(text) == FirstListed(ConceptMap, Tokens(text))

\* x or y for entity and concept labels
OrElse(x, y) == IF x # "" THEN x ELSE y

Compatibles == { {"order", "transaction"}, {"item", "product"}, {"amount", "price"},
                 {"date", "timestamp"} }
ConflictEntities == {"customer", "user", "account", "product", "item", "order", "transaction"}

\* _detect_entity_conflict
DetectEntityConflict(col_name, term_display, term_id) ==
    LET col_entity  == GetPrimaryEntity(col_name)
        term_entity == OrElse(GetPrimaryEntity(term_display), GetPrimaryEntity(term_id))
    IN  IF col_entity = "" \/ term_entity = "" THEN FALSE
        ELSE IF col_entity = term_entity THEN FALSE
        ELSE IF {col_entity, term_entity} \in Compatibles THEN FALSE
        ELSE col_entity \in ConflictEntities /\ term_entity \in ConflictEntities

\* a ratio n/d of two integers, d > 0
Ratio(n, d) == [n |-> n, d |-> d]
Min(a, b) == IF a <= b THEN a ELSE b

\* calculate_lexical_similarity: Jaccard similarity of the token sets
calculate_lexical_similarity(col_name, term_display, term_id) ==
    LET s1 == Tokens(col_name)
        s2 == Tokens(term_display) \cup (IF term_id # <<>> THEN Tokens(term_id) ELSE {})
    IN  IF s1 = {} \/ s2 = {} THEN Ratio(0, 1)
        ELSE Ratio(Cardinality(s1 \cap s2), Cardinality(s1 \cup s2))

\* an embedding pair is known by the cosine of its two vectors, in hundredths;
\* has = FALSE when the column or the term has no embedding
NoEmbedding == [has |-> FALSE, cosine |-> 0]
Cosine(c) == [has |-> TRUE, cosine |-> c]

\* calculate_semantic_similarity
calculate_semantic_similarity(column, term, emb) ==
    IF emb.has THEN Ratio(emb.cosine, 100)
    ELSE LET col_desc  == Lower(column.description)
             term_desc == Lower(term.description)
             s1 == Tokens(col_desc)
             s2 == Tokens(term_desc) \cup Tokens(term.display_name)
         IN  IF col_desc = <<>> \/ term_desc = <<>> THEN Ratio(0, 1)
             ELSE IF s1 = {} \/ s2 = {} THEN Ratio(0, 1)
             ELSE LET intersection == Cardinality(s1 \cap s2)
                      shorter == Min(Cardinality(s1), Cardinality(s2))
                  IN  IF intersection > shorter THEN Ratio(1, 1)
                      ELSE Ratio(intersection, shorter)

\* round(x, 2) of x = num / (100 * den), in hundredths.  A value halfway between
\* two hundredths goes where its floating-point image lies: either neighbour.
RoundChoices(num, den) ==
    LET q == num \div den
        r == num % den
    IN  IF 2 * r < den THEN {q} ELSE IF 2 * r > den THEN {q + 1} ELSE {q, q + 1}

\* term['name'].split('/')[-1]
TermIdBase(term) == term.name[Len(term.name)]

\* lines 165-188: penalties and boosts, in hundredths
Adjustments(col_name, term_display, term_id_base) ==
    LET col_entity   == GetPrimaryEntity(col_name)
        term_entity  == OrElse(GetPrimaryEntity(term_display), GetPrimaryEntity(term_id_base))
        col_concept  == GetConcept(col_name)
        term_concept == OrElse(GetConcept(term_display), GetConcept(term_id_base))
    IN  (IF DetectEntityConflict(col_name, term_display, term_id_base)
         THEN 0 - ConflictPenalty ELSE 0)
        + (IF col_entity # "" /\ term_entity # "" /\ col_entity = term_entity
           THEN EntityBoost ELSE 0)
        + (IF col_concept # "" /\ term_concept # ""
           THEN (IF col_concept = term_concept THEN ConceptBoost ELSE 0 - ConceptPenalty)
           ELSE 0)
        + (IF Tokens(col_name) \cap Tokens(term_display) # {} THEN WordBoost ELSE 0)

ClampAtZero(score) == IF score > 0 THEN score ELSE 0

\* calculate_total_score: the signal records the call can return
calculate_total_score(column, term, emb) ==
    LET lexical  == calculate_lexical_similarity(column.name, term.display_name, TermIdBase(term))
        semantic == calculate_semantic_similarity(column, term, emb)
        den      == lexical.d * semantic.d
        score    == LexicalWeight * lexical.n * semantic.d
                    + SemanticWeight * semantic.n * lexical.d
                    + Adjustments(column.name, term.display_name, TermIdBase(term)) * den
    IN  { [total |-> t, lexical |-> l, semantic |-> m] :
            t \in RoundChoices(ClampAtZero(score), den),
            l \in RoundChoices(100 * lexical.n, lexical.d),
            m \in RoundChoices(100 * semantic.n, semantic.d) }

AppendUnsorted(sorted, x) == Append(sorted, x)

\* list.sort(key=confidence, reverse=True): stable, highest first
RECURSIVE InsertByConfidence(_, _)
InsertByConfidence(sorted, x) ==
    IF sorted = <<>> THEN <<x>>
    ELSE IF Head(sorted).confidence >= x.confidence
    THEN <<Head(sorted)>> \o InsertByConfidence(Tail(sorted), x)
    ELSE <<x>> \o sorted

RECURSIVE SortByConfidence(_, _, _)
SortByConfidence(xs, i, acc) ==
    IF i > Len(xs) THEN acc
    ELSE SortByConfidence(xs, i + 1, InsertByConfidence(acc, xs[i]))

\* lines 201-212: the terms that reach the base threshold, in term order
RECURSIVE Thresholded(_, _, _, _)
Thresholded(all_terms, signals, i, acc) ==
    IF i > Len(all_terms) THEN acc
    ELSE Thresholded(all_terms, signals, i + 1,
             IF signals[i].total >= BaseThreshold
             THEN Append(acc, [term_name    |-> all_terms[i].name,
                               display_name |-> all_terms[i].display_name,
                               confidence   |-> signals[i].total,
                               signals      |-> signals[i]])
             ELSE acc)

\* get_ranked_suggestions, given the signals calculate_total_score returned
get_ranked_suggestions(all_terms, signals) ==
    LET sorted == SortByConfidence(Thresholded(all_terms, signals, 1, <<>>), 1, <<>>)
        kept   == IF sorted # <<>> /\ sorted[1].confidence > CompetitiveAbove
                  THEN SelectSeq(sorted, LAMBDA sug :
                           10 * sug.confidence >= CompetitiveShare * sorted[1].confidence)
                  ELSE sorted
    IN  SubSeq(kept, 1, Min(TopN, Len(kept)))

\* column names, term display names, term ids and texts of the scoring runs
t_Customer_ID == <<"C","u","s","t","o","m","e","r"," ","I","D">>
t_Order_Date == <<"O","r","d","e","r"," ","D","a","t","e">>
t_Total_Amount == <<"T","o","t","a","l"," ","A","m","o","u","n","t">>
n_total_amount == <<"t","o","t","a","l","_","a","m","o","u","n","t">>
g_terms == <<"t","e","r","m","s">>
d_customer == <<"C","u","s","t","o","m","e","r"," ","i","d",".">>
d_id_of_customer == <<"I","d"," ","o","f"," ","t","h","e"," ","c","u","s","t","o","m","e","r">>

ScoreColumns ==
    [name : {n_customer_id, n_cust_id, n_order_date, n_qty},
     description : {<<>>, d_customer}]

Term(id, display_name, description) ==
    [name |-> <<g_terms, id>>, display_name |-> display_name, description |-> description]

ScoreTerms ==
    { Term(n_customer_id, t_Customer_ID, d_id_of_customer),
      Term(n_order_date, t_Order_Date, <<>>),
      Term(n_total_amount, t_Total_Amount, <<>>) }

Embeddings == {NoEmbedding, Cosine(0 - 20), Cosine(60), Cosine(100)}

varsScore == <<scoreIn, scoreOut>>

NotScored == [called |-> FALSE, signals |-> <<>>, suggestions |-> <<>>]

ScoreIdle ==
    /\ scoreIn = [column |-> [name |-> <<>>, description |-> <<>>], terms |-> <<>>,
                  embs |-> <<>>]
    /\ scoreOut = NotScored

\* a column, the glossary terms and, per term, the cosine of the embeddings
ScoreInputs ==
    /\ \E column \in ScoreColumns, terms \in SeqsUpTo(ScoreTerms, MaxTerms) :
       \E embs \in [DOMAIN terms -> Embeddings] :
          scoreIn = [column |-> column, terms |-> terms, embs |-> embs]
    /\ scoreOut = NotScored

\* lines 200-202: the signals of all terms, one calculate_total_score call each
RECURSIVE SignalLists(_, _, _, _)
SignalLists(column, all_terms, embs, i) ==
    IF i > Len(all_terms) THEN {<<>>}
    ELSE LET here == calculate_total_score(column, all_terms[i], embs[i])
             rest == SignalLists(column, all_terms, embs, i + 1)
         IN  {<<sig>> \o tl : sig \in here, tl \in rest}

\* one call of get_ranked_suggestions for the column
RankCall ==
    /\ ~scoreOut.called
    /\ \E signals \in SignalLists(scoreIn.column, scoreIn.terms, scoreIn.embs, 1) :
          scoreOut' = [called |-> TRUE, signals |-> signals,
                       suggestions |-> get_ranked_suggestions(scoreIn.terms, signals)]
    /\ UNCHANGED <<scoreIn, varsWorld, varsResolve, varsPull, varsFind,
                   glossary, linkStore, applyLog, recsOut, args, ret>>

(***************************************************************************)
(* GlossaryPlugin: entry links, apply_terms, recommend_terms_for_table     *)
(***************************************************************************)
MaxUpdates == 2        \* updates handed to one apply_terms call
MaxCalls == 2          \* apply_terms calls in a run

s_link == <<"l","i","n","k">>
tb_s == <<"s">>
tb_s_x == <<"s","_","x">>
tb_u == <<"u">>
n_x_qty == <<"x","_","q","t","y">>

\* str.replace("_", "-").lower()
Clean(name) == Lower([i \in DOMAIN name |-> IF name[i] = "_" THEN "-" ELSE name[i]])

\* f"link-{clean_table}-{clean_column}"
EntryLinkId(table_id, column) ==
    s_link \o <<"-">> \o Clean(table_id) \o <<"-">> \o Clean(column)

\* _resolve_term_entry_name: the term's catalog entry, found under the project
\* id, under the project number or by search; Null if none of them finds it
ResolveTermEntryName(catalog, term_resource_name) ==
    IF term_resource_name \in DOMAIN catalog /\ catalog[term_resource_name] # "none"
    THEN [via |-> catalog[term_resource_name], name |-> term_resource_name]
    ELSE Null

\* lines 275-289: the link of a column to a term entry
EntryLink(entry_name, column, term_entry_name) ==
    [source |-> entry_name, path |-> column, target |-> term_entry_name]

\* the catalog's create_entry_link: refused for an id it rejects, "already
\* exists" for an id it holds, stored otherwise
CreateEntryLink(store, rejected, entry_link_id, link) ==
    IF entry_link_id \in rejected
    THEN [answer |-> "permission denied", store |-> store]
    ELSE IF entry_link_id \in DOMAIN store
    THEN [answer |-> "already exists", store |-> store]
    ELSE [answer |-> "ok",
          store  |-> [x \in DOMAIN store \cup {entry_link_id} |->
                        IF x = entry_link_id THEN link ELSE store[x]]]

NeverAlreadyExists(answer) == FALSE

\* line 297: "already exists" in str(e).lower()
IsAlreadyExists(answer) == answer = "already exists"

\* lines 261-306: one update; st is [store, outcomes]
ApplyUpdate(st, catalog, rejected, dataset_id, table_id, up) ==
    LET term_entry_name == ResolveTermEntryName(catalog, up.term_id)
        entry_link_id   == EntryLinkId(table_id, up.column)
        link    == EntryLink(Entity(dataset_id, table_id), up.column, term_entry_name)
        created == CreateEntryLink(st.store, rejected, entry_link_id, link)
        outcome(result, level) ==
            [column |-> up.column, term_id |-> up.term_id, link_id |-> entry_link_id,
             result |-> result, logged |-> level]
    IN  IF term_entry_name = Null
        THEN [st EXCEPT !.outcomes = Append(@, outcome("unresolved", "error"))]
        ELSE IF created.answer = "ok"
        THEN [store |-> created.store,
              outcomes |-> Append(st.outcomes, outcome("created", "info"))]
        ELSE IF IsAlreadyExists(created.answer)
        THEN [st EXCEPT !.outcomes = Append(@, outcome("already exists", "info"))]
        ELSE [st EXCEPT !.outcomes = Append(@, outcome("failed", "error"))]

\* apply_terms, lines 245-310
RECURSIVE ApplyTerms(_, _, _, _, _, _, _)
ApplyTerms(st, catalog, rejected, dataset_id, table_id, ups, i) ==
    IF i > Len(ups) THEN st
    ELSE ApplyTerms(ApplyUpdate(st, catalog, rejected, dataset_id, table_id, ups[i]),
                    catalog, rejected, dataset_id, table_id, ups, i + 1)

\* _check_link_exists: the link with the column's id is held and its target
\* ends with the last segment of the term name; dataset_id takes no part in the id
CheckLinkExists(store, dataset_id, table_id, col_name, term_id) ==
    LET entry_link_id == EntryLinkId(table_id, col_name)
    IN  /\ entry_link_id \in DOMAIN store
        /\ store[entry_link_id].target.name[Len(store[entry_link_id].target.name)]
              = term_id[Len(term_id)]

s_Business_Glossary ==
    <<"B","u","s","i","n","e","s","s"," ","G","l","o","s","s","a","r","y",":"," ">>

\* lines 147-164: the first term of all_terms linked to the upstream column
LineageRecommendation(store, all_terms, col_name, upstream) ==
    LET linked == {k \in DOMAIN all_terms :
                     CheckLinkExists(store, upstream.source_entity.dataset,
                                     upstream.source_entity.table, upstream.source_column,
                                     all_terms[k].name)}
    IN  IF linked = {} THEN <<>>
        ELSE LET first == CHOOSE k \in linked : \A j \in linked : k <= j
             IN  << [Column         |-> col_name,
                     Suggested_Term |-> all_terms[first].display_name,
                     Confidence     |-> 100,
                     Rationale      |-> [kind |-> "lineage", from |-> upstream.source_entity],
                     Term_ID        |-> all_terms[first].name] >>

\* lines 172-192: the suggestions not linked and not named in the description
RECURSIVE SimilarityRecommendations(_, _, _, _, _, _, _)
SimilarityRecommendations(store, dataset_id, table_id, col_meta, suggestions, i, acc) ==
    IF i > Len(suggestions) THEN acc
    ELSE LET sug == suggestions[i]
         IN  SimilarityRecommendations(store, dataset_id, table_id, col_meta, suggestions, i + 1,
                 IF CheckLinkExists(store, dataset_id, table_id, col_meta.name, sug.term_name)
                    \/ Contains(s_Business_Glossary \o sug.display_name, col_meta.description)
                 THEN acc
                 ELSE Append(acc, [Column         |-> col_meta.name,
                                   Suggested_Term |-> sug.display_name,
                                   Confidence     |-> sug.confidence,
                                   Rationale      |-> [kind |-> "similarity",
                                                       from |-> sug.signals],
                                   Term_ID        |-> sug.term_name]))

\* lines 138-192, from column i on: the recommendation lists the call can
\* return; embs[c] are the cosines of column c with the terms
RECURSIVE RecommendColumns(_, _, _, _, _, _, _, _, _)
RecommendColumns(store, dataset_id, table_id, table_schema, all_terms, embs, upstream_lineage, i, recommendations) ==
    LET cols == ColumnsOf(table_schema)
    IN  IF i > Len(cols) THEN {recommendations}
        ELSE LET col_name == cols[i]
                 col_meta == [name |-> col_name, description |-> table_schema[col_name].text]
                 inherited == IF col_name \in DOMAIN upstream_lineage
                              THEN LineageRecommendation(store, all_terms, col_name,
                                                         upstream_lineage[col_name])
                              ELSE <<>>
             IN  IF inherited # <<>>
                 THEN RecommendColumns(store, dataset_id, table_id, table_schema, all_terms,
                                       embs, upstream_lineage, i + 1,
                                       recommendations \o inherited)
                 ELSE UNION { RecommendColumns(store, dataset_id, table_id, table_schema,
                                  all_terms, embs, upstream_lineage, i + 1,
                                  SimilarityRecommendations(store, dataset_id, table_id, col_meta,
                                      get_ranked_suggestions(all_terms, signals), 1,
                                      recommendations))
                              : signals \in SignalLists(col_meta, all_terms, embs[col_name], 1) }

\* recommend_terms_for_table, lines 91-194: [upstream |-> the lineage read,
\* recommendations |-> the rows returned]
RecommendTermsForTable(store, dataset_id, table_id, all_terms, embs) ==
    LET table_schema == schema[Entity(dataset_id, table_id)]
        col_list == ColumnsOf(table_schema)
        upstream_lineage == GetColumnLineage(SearchOf(Entity(dataset_id, table_id), col_list),
                                             col_list, 0, TraverserMaxDepth)
    IN  IF all_terms = <<>> THEN {[upstream |-> <<>>, recommendations |-> <<>>]}
        ELSE {[upstream |-> upstream_lineage, recommendations |-> r] :
                 r \in RecommendColumns(store, dataset_id, table_id, table_schema, all_terms,
                                        embs, upstream_lineage, 1, <<>>)}

varsGlossary == <<glossary, linkStore, applyLog, recsOut>>

NotRecommended == [called |-> FALSE, upstream |-> <<>>, recommendations |-> <<>>]

GlossaryIdle ==
    /\ glossary = [dataset |-> "", table |-> <<>>, catalog |-> <<>>, rejected |-> {},
                   updates |-> <<>>, terms |-> <<>>, embs |-> <<>>]
    /\ linkStore = <<>> /\ applyLog = <<>> /\ recsOut = NotRecommended

T_Customer == Term(n_customer_id, t_Customer_ID, d_id_of_customer)
T_OrderDate == Term(n_order_date, t_Order_Date, <<>>)

UpdateMenu ==
    { [column |-> c, term_id |-> t.name, term_display |-> t.display_name] :
        c \in {n_order_id, n_Order_Id, n_x_qty}, t \in {T_Customer, T_OrderDate} }

TermEntry(term) == [via |-> "id", name |-> term.name]

\* The worlds apply_terms is called in: table s of dataset d1; each term resolved
\* or not; the catalog refusing the link of order_id or none; the store empty or
\* holding the link of column qty of table s_x; a list of updates.
ApplyWorld ==
    /\ \E v1 \in {"id", "none"}, v2 \in {"number", "search"},
          rejected \in {{}, {EntryLinkId(tb_s, n_order_id)}},
          ups \in SeqsUpTo(UpdateMenu, MaxUpdates) :
          glossary = [dataset |-> "d1", table |-> tb_s,
                      catalog |-> [t \in {T_Customer.name, T_OrderDate.name} |->
                                     IF t = T_Customer.name THEN v1 ELSE v2],
                      rejected |-> rejected, updates |-> ups, terms |-> <<>>, embs |-> <<>>]
    /\ linkStore \in
         { <<>>,
           [x \in {EntryLinkId(tb_s_x, n_qty)} |->
              EntryLink(Entity("d1", tb_s_x), n_qty, TermEntry(T_OrderDate))] }
    /\ applyLog = <<>> /\ recsOut = NotRecommended

Reverse(seq) == [i \in DOMAIN seq |-> seq[Len(seq) + 1 - i]]

\* one call of apply_terms with the updates, in either order
ApplyCall ==
    /\ Len(applyLog) < MaxCalls
    /\ \E ups \in {glossary.updates, Reverse(glossary.updates)} :
       \E out \in {ApplyTerms([store |-> linkStore, outcomes |-> <<>>], glossary.catalog,
                              glossary.rejected, glossary.dataset, glossary.table, ups, 1)} :
          /\ linkStore' = out.store
          /\ applyLog' = Append(applyLog, [updates |-> ups, outcomes |-> out.outcomes,
                                           before |-> linkStore, links |-> out.store])
    /\ UNCHANGED <<glossary, recsOut, varsWorld, varsResolve, varsPull, varsFind, varsScore, varsCall>>

TargetEntity == Entity("d1", tb_s)
UpstreamEntity == Entity("d1", tb_u)

\* The worlds recommend_terms_for_table is called in: table s with a column
\* order_id or orderid, read or not from u.order_id, and a column customer_id;
\* u.order_id linked to a term or not, s.customer_id linked or not; the terms of
\* the glossary; embeddings at hand or not.
RecommendWorld ==
    /\ \E tc \in {n_order_id, n_orderid},
          cd \in {NoDesc, Plain(d_customer), Plain(s_Business_Glossary \o t_Customer_ID)},
          up \in {<<>>, << [fqn |-> UpstreamEntity, field |-> <<n_order_id>>] >>},
          terms \in SeqsUpTo(ScoreTerms, MaxTerms), emb \in {NoEmbedding, Cosine(100)} :
          /\ schema = [t \in {TargetEntity, UpstreamEntity} |->
                         IF t = TargetEntity
                         THEN [c \in {tc, n_customer_id} |-> IF c = tc THEN NoDesc ELSE cd]
                         ELSE [c \in {n_order_id} |-> NoDesc]]
          /\ lineage = [t \in {TargetEntity} |-> [c \in {tc, n_customer_id} |->
                           IF c = tc THEN Answered(up) ELSE Answered(<<>>)]]
          /\ glossary = [dataset |-> "d1", table |-> tb_s, catalog |-> <<>>, rejected |-> {},
                         updates |-> <<>>, terms |-> terms,
                         embs |-> [c \in {tc, n_customer_id} |-> [i \in DOMAIN terms |-> emb]]]
    /\ \E ids \in SUBSET {EntryLinkId(tb_u, n_order_id), EntryLinkId(tb_s, n_customer_id)} :
          linkStore = [x \in ids |->
                         IF x = EntryLinkId(tb_u, n_order_id)
                         THEN EntryLink(UpstreamEntity, n_order_id, TermEntry(T_OrderDate))
                         ELSE EntryLink(TargetEntity, n_customer_id, TermEntry(T_Customer))]
    /\ form = "record" /\ knowledge = <<>> /\ mode = "report"
    /\ applyLog = <<>> /\ recsOut = NotRecommended

\* one call of recommend_terms_for_table
RecommendCall ==
    /\ ~recsOut.called
    /\ \E out \in RecommendTermsForTable(linkStore, glossary.dataset, glossary.table,
                                         glossary.terms, glossary.embs) :
          recsOut' = [called |-> TRUE, upstream |-> out.upstream,
                      recommendations |-> out.recommendations]
    /\ UNCHANGED <<glossary, linkStore, applyLog, varsWorld, varsResolve, varsPull, varsFind,
                   varsScore, varsCall>>

(***************************************************************************)
(* LineagePlugin.apply_propagation                                         *)
(***************************************************************************)
\* lines 286-303, from update i on: get_table raises for a table the store
\* does not hold, update_table for a table it refuses to change; nothing
\* catches either.  attempted lists the updates reached.
RECURSIVE ApplyPropagation(_, _, _, _, _)
ApplyPropagation(store, refused, updates, i, attempted) ==
    IF i > Len(updates) THEN [store |-> store, attempted |-> attempted, raised |-> FALSE]
    ELSE LET update == updates[i]
         IN  IF update.table \notin DOMAIN store \/ update.table \in refused
             THEN [store |-> store, attempted |-> Append(attempted, i), raised |-> TRUE]
             ELSE ApplyPropagation(
                      UpdateColumnDescription(store, update.table, update.column,
                                              Plain(update.description)),
                      refused, updates, i + 1, Append(attempted, i))

PropagationUpdates ==
    [table : {tA, tB, tC}, column : {n_order_id, n_qty}, description : {d_key}]

\* The worlds apply_propagation is called in: tables tA and tB exist, tC does
\* not; tB may be closed to updates; a list of updates.
PropagationWorld ==
    /\ schema = [t \in {tA, tB} |-> [c \in {n_order_id, n_qty} |-> NoDesc]]
    /\ \E ups \in SeqsUpTo(PropagationUpdates, MaxUpdates), refused \in {{}, {tB}} :
          args = [op |-> "apply_propagation", updates |-> ups, refused |-> refused]
    /\ ret = NotReturned
    /\ lineage = <<>> /\ form = "record" /\ knowledge = <<>> /\ mode = "apply"

\* one call of apply_propagation
ApplyPropagationCall ==
    /\ args.op = "apply_propagation" /\ ~ret.done
    /\ \E out \in {ApplyPropagation(schema, args.refused, args.updates, 1, <<>>)} :
          /\ schema' = out.store
          /\ ret' = [done |-> TRUE, attempted |-> out.attempted, raised |-> out.raised]
    /\ UNCHANGED <<args, lineage, form, knowledge, mode, varsResolve, varsPull, varsFind,
                   varsScore, varsGlossary>>

(***************************************************************************)
(* get_column_lineage and get_downstream_lineage over several columns      *)
(***************************************************************************)
MaxColumns == 2           \* columns asked for in one lineage call

Uncaught(acc) == [acc EXCEPT !.raised = TRUE]

\* lines 298-299 and 363-364: the except clause logs a warning and the loop
\* goes on with what it has
Caught(acc) == acc

\* a dict with one key set
Put(dict, key, value) == [k \in DOMAIN dict \cup {key} |-> IF k = key THEN value ELSE dict[k]]

\* lines 257-260: the dict to fill; lookups lists the _search_links calls made
NoMappings == [mappings |-> <<>>, lookups |-> <<>>, raised |-> FALSE]

\* lines 259-301, from column i on
RECURSIVE ColumnLineageLoop(_, _, _, _, _)
ColumnLineageLoop(search, target_columns, i, depth, acc) ==
    IF i > Len(target_columns) \/ acc.raised THEN acc
    ELSE LET col    == target_columns[i]
             looked == [acc EXCEPT !.lookups = Append(@, col)]
             best   == BestMatch(col, search[col].links, depth)
         IN  ColumnLineageLoop(search, target_columns, i + 1, depth,
                 IF search[col].raises THEN Caught(looked)
                 ELSE IF search[col].links = <<>> \/ best = Null THEN looked
                 ELSE [looked EXCEPT !.mappings = Put(@, col, best)])

\* lines 350-361: the targets the links of one answer name
RECURSIVE LinkTargets(_, _)
LinkTargets(links, i) ==
    IF i > Len(links) THEN <<>>
    ELSE IF LinkUsable(links[i])
         THEN <<[target_fqn |-> links[i].fqn, target_entity |-> links[i].fqn,
                 target_column |-> links[i].field[1], source |-> "none"]>>
              \o LinkTargets(links, i + 1)
         ELSE LinkTargets(links, i + 1)

\* lines 367-384: the targets the Knowledge Engine relationships add
RECURSIVE InsightTargets(_, _, _, _, _)
InsightTargets(insights, i, norm_source, col, targets) ==
    IF i > Len(insights) THEN targets
    ELSE LET rel      == insights[i]
             existing == \E j \in DOMAIN targets :
                            /\ targets[j].target_entity = rel.right
                            /\ targets[j].target_column = rel.right_cols[1]
         IN  InsightTargets(insights, i + 1, norm_source, col,
                 IF /\ rel.left = norm_source /\ col \in SeqRange(rel.left_cols)
                    /\ rel.right_cols # <<>> /\ ~existing
                 THEN Append(targets, [target_fqn |-> rel.right,
                                       target_entity |-> Entity("", rel.right.table),
                                       target_column |-> rel.right_cols[1],
                                       source |-> "KNOWLEDGE_ENGINE"])
                 ELSE targets)

\* lines 345-386, from column i on
RECURSIVE DownstreamLoop(_, _, _, _, _, _)
DownstreamLoop(search, insights, source, source_columns, i, acc) ==
    IF i > Len(source_columns) \/ acc.raised THEN acc
    ELSE LET col     == source_columns[i]
             looked  == [acc EXCEPT !.lookups = Append(@, col)]
             after   == IF search[col].raises THEN Caught(looked) ELSE looked
             targets == InsightTargets(insights, 1, source, col,
                            IF search[col].raises THEN <<>>
                            ELSE LinkTargets(search[col].links, 1))
         IN  DownstreamLoop(search, insights, source, source_columns, i + 1,
                 IF after.raised \/ targets = <<>> THEN after
                 ELSE [after EXCEPT !.mappings = Put(@, col, targets)])

\* the lineage call a (args): upstream or downstream
LineageOf(a) ==
    IF a.op = "get_column_lineage"
    THEN ColumnLineageLoop(a.search, a.columns, 1, 0, NoMappings)
    ELSE DownstreamLoop(a.search, a.insights, tC, a.columns, 1, NoMappings)

LineageColumns == {n_order_id, n_qty, n_customer_id}

LineageAnswers ==
    { Fail, Answered(<<>>), Answered(<<[fqn |-> tA, field |-> <<n_order_id>>]>>),
      Answered(<<[fqn |-> tB, field |-> <<n_qty, n_order_id>>]>>) }

\* a relationship of the Knowledge Engine: column qty of tC joins order_id of tA
QtyJoinsOrderId ==
    [left |-> tC, left_cols |-> <<n_qty>>, right |-> tA, right_cols |-> <<n_order_id>>]

\* no relationship, one, or the same relationship found twice
LineageInsights == { <<>>, <<QtyJoinsOrderId>>, <<QtyJoinsOrderId, QtyJoinsOrderId>> }

\* the calls: the columns asked for, what _search_links does for each of them,
\* the Knowledge Engine relationships loaded
LineageInputs ==
    /\ \E op \in {"get_column_lineage", "get_downstream_lineage"},
          columns \in SeqsUpTo(LineageColumns, MaxColumns),
          search \in [LineageColumns -> LineageAnswers], insights \in LineageInsights :
          args = [op |-> op, columns |-> columns, search |-> search, insights |-> insights]
    /\ ret = NotReturned

\* one call of get_column_lineage or get_downstream_lineage
LineageCall ==
    /\ args.op \in {"get_column_lineage", "get_downstream_lineage"} /\ ~ret.done
    /\ ret' = [done |-> TRUE, out |-> LineageOf(args)]
    /\ UNCHANGED <<args, varsWorld, varsResolve, varsPull, varsFind, varsScore, varsGlossary>>

(***************************************************************************)
(* get_ranked_suggestions over a long glossary                             *)
(***************************************************************************)
MaxRanked == 6            \* terms of the glossary in one ranking call

\* the totals calculate_total_score returns for the terms: below, at and above
\* the base threshold, at and above the competitive bound
RankTotals == {29, 30, 45, 70, 100}

\* the i-th term of the glossary
RankTerm(i) == Term(<<<<"0", "1", "2", "3", "4", "5", "6", "7">>[i + 1]>>, t_Customer_ID, <<>>)

\* a glossary and the total of each of its terms
RankInputs ==
    /\ \E n \in 0..MaxRanked : \E totals \in [1..n -> RankTotals] :
          args = [op |-> "get_ranked_suggestions", terms |-> [i \in 1..n |-> RankTerm(i)],
                  signals |-> [i \in 1..n |-> [total |-> totals[i], lexical |-> 0, semantic |-> 0]]]
    /\ ret = NotReturned

\* lines 203-223 of one call of get_ranked_suggestions
RankOnlyCall ==
    /\ args.op = "get_ranked_suggestions" /\ ~ret.done
    /\ ret' = [done |-> TRUE, out |-> get_ranked_suggestions(args.terms, args.signals)]
    /\ UNCHANGED <<args, varsWorld, varsResolve, varsPull, varsFind, varsScore, varsGlossary>>

(***************************************************************************)
(* One call of calculate_total_score                                       *)
(***************************************************************************)
n_transaction_id == <<"t","r","a","n","s","a","c","t","i","o","n","_","i","d">>
t_Customer_Identifier == <<"C","u","s","t","o","m","e","r"," ","I","d","e","n","t","i","f","i","e","r">>
i_customer_id == <<"c","u","s","t","o","m","e","r","-","i","d">>
i_dt_1 == <<"d","t","-","1">>

EntityNames ==
    { s_customer, s_order, s_item, s_product, s_transaction, s_user, s_account,
      s_membership, s_loyalty }

\* the columns scored: the test's column, columns named after one entity each,
\* and columns of the other runs; with and without a description
TotalColumns ==
    [name : {n_transaction_id, n_order_date, n_customer_id, n_qty} \cup EntityNames,
     description : {<<>>, d_customer}]

\* the terms: the test's display name, display names that are an entity or a
\* column name, under identifiers that share words with the name or do not
TotalTerms ==
    { Term(id, display_name, description) :
        id \in {i_customer_id, i_dt_1, n_order_date},
        display_name \in {t_Customer_Identifier, n_transaction_id, n_order_date, n_customer_id,
                          n_qty} \cup EntityNames,
        description \in {<<>>, d_id_of_customer} }

TotalEmbeddings == {NoEmbedding, Cosine(0), Cosine(84), Cosine(100)}

TotalInputs ==
    /\ \E column \in TotalColumns, term \in TotalTerms, emb \in TotalEmbeddings :
          args = [op |-> "calculate_total_score", column |-> column, term |-> term, emb |-> emb]
    /\ ret = NotReturned

\* one call of calculate_total_score; conflict is the local of line 166
TotalCall ==
    /\ args.op = "calculate_total_score" /\ ~ret.done
    /\ \E out \in calculate_total_score(args.column, args.term, args.emb) :
          ret' = [done |-> TRUE, out |-> out,
                  conflict |-> DetectEntityConflict(args.column.name, args.term.display_name,
                                                    TermIdBase(args.term))]
    /\ UNCHANGED <<args, varsWorld, varsResolve, varsPull, varsFind, varsScore, varsGlossary>>

(***************************************************************************)
(* TransformationEnricher.extract_column_logic                             *)
(***************************************************************************)
MaxSelect == 2            \* items of a select list


x_a_amount_discounted == <<"a",".","a","m","o","u","n","t","_","d","i","s","c","o","u","n","t","e","d">>
x_a_amount == <<"a",".","a","m","o","u","n","t">>
x_t_amount_times == <<"t",".","a","m","o","u","n","t"," ","*"," ","1",".","1">>
x_round == <<"R","O","U","N","D","(","p","r","i","c","e",","," ","2",")">>
x_coalesce == <<"C","O","A","L","E","S","C","E","(","a",","," ","b",")">>
n_amount_discounted == <<"a","m","o","u","n","t","_","d","i","s","c","o","u","n","t","e","d">>
n_amount_taxed == <<"a","m","o","u","n","t","_","t","a","x","e","d">>
x_quoted_amount_taxed == <<BackQuote,"a","m","o","u","n","t","_","t","a","x","e","d",BackQuote>>
x_select == <<"S","E","L","E","C","T">>
x_create_as_select == <<"C","R","E","A","T","E"," ","T","A","B","L","E"," ","x"," ","A","S"," ","S","E","L","E","C","T">>
x_from_t == <<"F","R","O","M"," ","t">>
x_comment == <<"-","-"," ","v","i","e","w">>
x_as == <<"a","s">>
x_literal == <<"S","E","L","E","C","T"," ","a",".","a","m","o","u","n","t","_","d","i","s","c","o","u","n","t","e","d"," ","A","S"," ","a","m","o","u","n","t","_","d","i","s","c","o","u","n","t","e","d",","," ","a",".","a","m","o","u","n","t"," ","A","S"," ","a","m","o","u","n","t"," ","F","R","O","M"," ","t">>

WordAt(text, i) == i \in DOMAIN text /\ IsWordChar(text[i])

NoBoundary(text, i) == TRUE

\* \b between the characters i - 1 and i of text
Boundary(text, i) == WordAt(text, i - 1) # WordAt(text, i)

\* word stands in text from character i on, whatever the case (re.IGNORECASE)
StartsAt(text, i, word) ==
    /\ i >= 1 /\ i + Len(word) - 1 <= Len(text)
    /\ Lower(SubSeq(text, i, i + Len(word) - 1)) = Lower(word)

IsSpace(c) == c \in {" ", "\n", "\t"}

\* the pieces lo..hi of a list of texts, joined
RECURSIVE Concat(_, _, _)
Concat(pieces, lo, hi) ==
    IF lo > hi THEN <<>>
    ELSE IF lo = hi THEN pieces[lo]
    ELSE Concat(pieces, lo, (lo + hi) \div 2) \o Concat(pieces, (lo + hi) \div 2 + 1, hi)

\* character i lies in a comment: after a "--" of its line
InComment(sql, i) ==
    \E j \in 1..i : StartsAt(sql, j, <<"-", "-">>) /\ \A m \in j..i : sql[m] # "\n"

\* line 73, re.sub(r'--.*', '', sql): a comment goes up to the end of its line
RemoveComments(sql) ==
    Concat([i \in DOMAIN sql |-> IF InComment(sql, i) THEN <<>> ELSE <<sql[i]>>], 1, Len(sql))

\* line 74, re.sub(r'\s+', ' ', sql): each run of white space becomes one blank
CollapseSpaces(sql) ==
    Concat([i \in DOMAIN sql |->
              IF ~IsSpace(sql[i]) THEN <<sql[i]>>
              ELSE IF i > 1 /\ IsSpace(sql[i - 1]) THEN <<>> ELSE <<" ">>], 1, Len(sql))

\* `?\b{target_col}\b from character j on
TargetAt(text, j, target_col) ==
    /\ StartsAt(text, j, target_col)
    /\ Boundary(text, j) /\ Boundary(text, j + Len(target_col))

\* \s+as\s+`?\b{target_col}\b from the blank at character k on
AsTargetAt(text, k, target_col) ==
    /\ text[k] = " " /\ StartsAt(text, k + 1, x_as)
    /\ k + 3 <= Len(text) /\ text[k + 3] = " "
    /\ \/ TargetAt(text, k + 4, target_col)
       \/ (k + 4 <= Len(text) /\ text[k + 4] = BackQuote /\ TargetAt(text, k + 5, target_col))

SetMin(S) == CHOOSE x \in S : \A y \in S : x <= y
SetMax(S) == CHOOSE x \in S : \A y \in S : x >= y

\* lines 78-79, re.search of ([^,]*?)\s+as\s+`?\b{target_col}\b`?: the leftmost
\* match ends at the first "as target_col" and its group starts after the last
\* comma before it
SearchGroup(text, target_col) ==
    LET at == {k \in DOMAIN text : AsTargetAt(text, k, target_col)}
        k1 == SetMin(at)
        p  == 1 + SetMax({i \in 1..k1 : text[i] = ","} \cup {0})
    IN  IF at = {} THEN [found |-> FALSE, group |-> <<>>]
        ELSE [found |-> TRUE, group |-> SubSeq(text, p, k1 - 1)]

\* line 85, re.split(r'\bSELECT\b', expr)[-1]: what follows the last SELECT
LastSelect(expr) ==
    LET at == {i \in DOMAIN expr : /\ StartsAt(expr, i, x_select)
                                   /\ Boundary(expr, i) /\ Boundary(expr, i + 6)}
    IN  IF at = {} THEN expr ELSE SubSeq(expr, SetMax(at) + 6, Len(expr))

\* extract_column_logic; found = FALSE stands for None
extract_column_logic(sql, target_col) ==
    LET sql_clean == Strip(CollapseSpaces(RemoveComments(sql)))
        match     == SearchGroup(sql_clean, target_col)
    IN  IF sql = <<>> \/ ~match.found THEN [found |-> FALSE, out |-> <<>>]
        ELSE [found |-> TRUE, out |-> Strip(LastSelect(Strip(match.group)))]

\* one item of a select list: expr AS alias, binding column
Binding(expr, kw, alias, column) == [expr |-> expr, kw |-> kw, alias |-> alias, column |-> column]

SelectItems ==
    { Binding(x_a_amount_discounted, <<"A", "S">>, n_amount_discounted, n_amount_discounted),
      Binding(x_a_amount, <<"A", "S">>, n_amount, n_amount),
      Binding(x_t_amount_times, x_as, n_amount_taxed, n_amount_taxed),
      Binding(x_round, <<"A", "S">>, n_amount, n_amount),
      Binding(x_coalesce, x_as, x_quoted_amount_taxed, n_amount_taxed) }

\* the text of a select list
RECURSIVE RenderItems(_, _)
RenderItems(items, i) ==
    IF i > Len(items) THEN <<>>
    ELSE items[i].expr \o <<" ">> \o items[i].kw \o <<" ">> \o items[i].alias
         \o (IF i < Len(items) THEN <<",", " ">> ELSE <<>>) \o RenderItems(items, i + 1)

\* the statement, on one line or with a comment line and line breaks
RenderSql(head, items, layout) ==
    IF layout = "line" THEN head \o <<" ">> \o RenderItems(items, 1) \o <<" ">> \o x_from_t
    ELSE x_comment \o <<"\n">> \o head \o <<"\n", " ", " ">> \o RenderItems(items, 1)
         \o <<"\n">> \o x_from_t \o <<"\n">>

\* the statements handed to extract_column_logic and the column asked for
ExtractInputs ==
    /\ \E head \in {x_select, x_create_as_select}, layout \in {"line", "lines"},
          items \in SeqsUpTo(SelectItems, MaxSelect) \ {<<>>},
          target_col \in {n_amount, n_amount_taxed} :
          args = [op |-> "extract_column_logic", items |-> items,
                  sql |-> RenderSql(head, items, layout), target_col |-> target_col]
    /\ ret = NotReturned

\* one call of extract_column_logic
ExtractCall ==
    /\ args.op = "extract_column_logic" /\ ~ret.done
    /\ \E out \in {extract_column_logic(args.sql, args.target_col)} :
          ret' = [done |-> TRUE, found |-> out.found, out |-> out.out]
    /\ UNCHANGED <<args, varsWorld, varsResolve, varsPull, varsFind, varsScore, varsGlossary>>

(***************************************************************************)
(* One call of enrich_description                                          *)
(***************************************************************************)
MaxHints == 2             \* hops that contribute a hint

BackQuoted(col) == <<BackQuote>> \o col \o <<BackQuote>>
Qualified(alias, col) == alias \o <<".">> \o col

\* a column handed on unchanged: its name bare, qualified or back-quoted
PassthroughHints(col) == { <<col>>, <<Qualified(<<"t">>, col)>>, <<BackQuoted(col)>> }

\* expressions that change the value: a.amount * 1.1 and cast amount
TransformHints == { <<x_a_amount, <<"*">>, <<"1", ".", "1">>>>, <<s_cast, n_amount, <<")">>>> }

\* the calls: view column amount_taxed fed by amount, the source description,
\* and the expressions gathered along the hops
EnrichInputs ==
    /\ \E original_desc \in {NoDesc, Plain(d_key), Plain(d_key_dot)},
          sql_hints \in SeqsUpTo(PassthroughHints(n_amount_taxed) \cup PassthroughHints(n_amount)
                                 \cup TransformHints, MaxHints) :
          args = [op |-> "enrich_description", target_col |-> n_amount_taxed,
                  source_col |-> n_amount, original_desc |-> original_desc,
                  sql_hints |-> sql_hints]
    /\ ret = NotReturned

\* one call of enrich_description
EnrichCall ==
    /\ args.op = "enrich_description" /\ ~ret.done
    /\ ret' = [done |-> TRUE,
               out |-> enrich_description(args.target_col, args.source_col,
                                          args.original_desc, args.sql_hints)]
    /\ UNCHANGED <<args, varsWorld, varsResolve, varsPull, varsFind, varsScore, varsGlossary>>

(***************************************************************************)
(* One call of describe_sql_logic                                          *)
(***************************************************************************)
MaxNesting == 2           \* function calls around the operand of an expression

\* a function call around an inner expression
Call(open, close) == [open |-> open, close |-> close]

Calls ==
    { Call(<<<<"C","A","S","T","(">>>>, <<<<"A","S">>, <<"I","N","T","6","4">>, <<")">>>>), Call(<<<<"c","o","a","l","e","s","c","e","(">>>>, <<<<",">>, <<"0">>, <<")">>>>),
      Call(<<<<"N","U","L","L","I","F","(">>>>, <<<<",">>, <<"x">>, <<")">>>>), Call(<<<<"R","O","U","N","D","(">>>>, <<<<",">>, <<"2">>, <<")">>>>),
      Call(<<<<"T","R","I","M","(">>>>, <<<<")">>>>), Call(<<<<"E","X","T","R","A","C","T","(">>>>, <<<<")">>>>),
      Call(<<<<"I","F","(">>>>, <<<<">">>, <<"y">>, <<",">>, <<"a">>, <<",">>, <<"b">>, <<")">>>>), Call(<<<<"S","A","F","E",".","F","(">>>>, <<<<")">>>>) }

Operands ==
    { <<<<"p","r","i","c","e">>>>, <<<<"p","r","i","c","e">>, <<"*">>, <<"1",".","1">>>>, <<<<"a">>, <<"-">>, <<"b">>>>, <<<<"c","o","l","2">>>>,
      <<<<"C","A","S","E">>, <<"W","H","E","N">>, <<"x">>, <<"T","H","E","N">>, <<"y">>, <<"E","N","D">>>> }

\* the words of operand wrapped in the calls outer[1], outer[2], ...
RECURSIVE Wrap(_, _, _)
Wrap(outer, i, operand) ==
    IF i > Len(outer) THEN operand
    ELSE outer[i].open \o Wrap(outer, i + 1, operand) \o outer[i].close

\* the expressions handed to describe_sql_logic, the empty one among them
DescribeInputs ==
    /\ \/ args = [op |-> "describe_sql_logic", expr |-> <<>>]
       \/ \E outer \in SeqsUpTo(Calls, MaxNesting), operand \in Operands :
             args = [op |-> "describe_sql_logic", expr |-> Wrap(outer, 1, operand)]
    /\ ret = NotReturned

\* one call of describe_sql_logic
DescribeCall ==
    /\ args.op = "describe_sql_logic" /\ ~ret.done
    /\ ret' = [done |-> TRUE, out |-> describe_sql_logic(args.expr)]
    /\ UNCHANGED <<args, varsWorld, varsResolve, varsPull, varsFind, varsScore, varsGlossary>>

(***************************************************************************)
(* propagate_push                                                          *)
(***************************************************************************)
\* target['target_table'], lines 178-179: KeyError on a candidate without the key
KeyRaises(target, key) == key \notin DOMAIN target

\* lines 172-188, from target j of source column i on: the updates per target
\* table, gathered for the source columns that have a description
RECURSIVE PushGather(_, _, _, _, _, _)
PushGather(source_schema, downstream_map, cols, i, j, acc) ==
    IF i > Len(cols) \/ acc.raised THEN acc
    ELSE IF cols[i] \notin DOMAIN downstream_map \/ ~HasDesc(source_schema[cols[i]])
            \/ j > Len(downstream_map[cols[i]])
    THEN PushGather(source_schema, downstream_map, cols, i + 1, 1, acc)
    ELSE LET target == downstream_map[cols[i]][j]
         IN  PushGather(source_schema, downstream_map, cols, i, j + 1,
                 IF KeyRaises(target, "target_table") THEN [acc EXCEPT !.raised = TRUE]
                 ELSE [acc EXCEPT !.updates = Append(@,
                          [table |-> target.target_table, column |-> target.target_column,
                           description |-> source_schema[cols[i]], source_col |-> cols[i]])])

\* lines 191-219, from update i on; seen is the store as fetch_table_schema read
\* it: a described target column is skipped, another one is written in apply mode
RECURSIVE PushApply(_, _, _, _, _)
PushApply(store, seen, updates, i, run_mode) ==
    IF i > Len(updates) THEN store
    ELSE LET update == updates[i]
             t_schema == FetchTableSchema(seen, update.table)
             current_desc == IF update.column \in DOMAIN t_schema
                             THEN t_schema[update.column] ELSE NoDesc
         IN  PushApply(IF ~HasDesc(current_desc) /\ run_mode = "apply"
                       THEN UpdateColumnDescription(store, update.table, update.column,
                                                    update.description)
                       ELSE store,
                       seen, updates, i + 1, run_mode)

\* propagate_push
PropagatePush(store, search, insights, run_mode, source_table) ==
    LET source_schema == FetchTableSchema(store, source_table)
        cols == ColumnsOf(source_schema)
        downstream_map == DownstreamLoop(search, insights, source_table, cols, 1, NoMappings).mappings
        gathered == PushGather(source_schema, downstream_map, cols, 1, 1,
                               [updates |-> <<>>, raised |-> FALSE])
    IN  IF source_schema = <<>> THEN [store |-> store, raised |-> FALSE]
        ELSE IF gathered.raised THEN [store |-> store, raised |-> TRUE]
        ELSE [store |-> PushApply(store, store, gathered.updates, 1, run_mode), raised |-> FALSE]

SourceTable == tC

\* the worlds propagate_push is run in: source table tC with two columns, each
\* described or not; downstream tables tA and tB with described or empty
\* columns; what the lineage API answers per source column; the relationships
PushWorld ==
    /\ \E d1 \in {NoDesc, Plain(d_key)}, d2 \in {NoDesc, Plain(d_same)},
          da \in {NoDesc, Plain(d_old)}, db \in {NoDesc, Plain(d_old)} :
          schema = [t \in {tA, tB, SourceTable} |->
                      IF t = tA THEN [c \in {n_order_id} |-> da]
                      ELSE IF t = tB THEN [c \in {n_order_id, n_qty} |-> db]
                      ELSE [c \in {n_order_id, n_qty} |-> IF c = n_order_id THEN d1 ELSE d2]]
    /\ \E search \in [{n_order_id, n_qty} -> LineageAnswers], insights \in LineageInsights :
          args = [op |-> "propagate_push", search |-> search, insights |-> insights]
    /\ mode \in {"report", "apply"}
    /\ lineage = <<>> /\ form = "record" /\ knowledge = <<>>
    /\ ret = NotReturned

\* one run of propagate_push from the source table
PushRun ==
    /\ args.op = "propagate_push" /\ ~ret.done
    /\ \E out \in {PropagatePush(schema, args.search, args.insights, mode, SourceTable)} :
          /\ schema' = out.store
          /\ ret' = [done |-> TRUE, raised |-> out.raised, before |-> schema]
    /\ UNCHANGED <<args, lineage, form, knowledge, mode, varsResolve, varsPull, varsFind,
                   varsScore, varsGlossary>>

(***************************************************************************)
(* PolicyTagPlugin.preview_policy_tag_propagation                          *)
(***************************************************************************)
\* lines 126-141: the source named by the target column's name, unless the
\* statement of the target table binds the column to another expression
IsStraightPull(field_name, src_col, sql) ==
    LET logic == extract_column_logic(sql, field_name)
    IN  /\ src_col = field_name
        /\ ~(/\ sql # <<>> /\ logic.found /\ logic.out # <<>>
             /\ Strip(logic.out) # src_col /\ Strip(logic.out) # BackQuoted(src_col))

\* lines 119-156 for one source of one field: nothing for a source table that
\* cannot be read, a source column without tags, or tags the field carries
RecommendationsFor(tags, sql, target_table, field_name, source) ==
    LET src_entity == source.source_entity
        src_col    == source.source_column
    IN  IF \/ src_entity \notin DOMAIN tags \/ src_col \notin DOMAIN tags[src_entity]
           \/ tags[src_entity][src_col] = {}
           \/ (/\ tags[target_table][field_name] # {}
               /\ tags[src_entity][src_col] \subseteq tags[target_table][field_name])
        THEN <<>>
        ELSE << [Target_Column |-> field_name, Source_Table |-> src_entity,
                 Source_Column |-> src_col, Policy_Tags |-> tags[src_entity][src_col],
                 Recommendation |-> IF IsStraightPull(field_name, src_col, sql)
                                    THEN "Propagate"
                                    ELSE "Review Required (Transformed)"] >>

\* lines 98-158, from field i on.  Iterating over a match record yields its
\* keys, and source['source_entity'] on a key raises TypeError outside the try.
RECURSIVE PreviewPolicyTags(_, _, _, _, _, _, _)
PreviewPolicyTags(tags, search, sql, target_table, cols, i, acc) ==
    IF i > Len(cols) \/ acc.raised THEN acc
    ELSE LET lineage_map == GetColumnLineage([c \in {cols[i]} |-> search[cols[i]]],
                                             <<cols[i]>>, 0, TraverserMaxDepth)
             sources == ColumnSources(lineage_map, cols[i])
         IN  PreviewPolicyTags(tags, search, sql, target_table, cols, i + 1,
                 IF sources.items = <<>> THEN acc
                 ELSE IF sources.form = "record" THEN [acc EXCEPT !.raised = TRUE]
                 ELSE [acc EXCEPT !.recommendations =
                          @ \o RecommendationsFor(tags, sql, target_table, cols[i],
                                                  sources.items[1])])

PolicySelectLists ==
    { <<>>, <<Binding(n_amount, x_as, n_amount, n_amount)>>,
      <<Binding(BackQuoted(n_amount), x_as, n_amount, n_amount)>>,
      <<Binding(x_a_amount, x_as, n_amount, n_amount)>>,
      <<Binding(x_t_amount_times, x_as, n_amount_taxed, n_amount_taxed)>>,
      <<Binding(x_t_amount_times, x_as, n_amount_taxed, n_amount_taxed),
        Binding(n_amount, x_as, n_amount, n_amount)>> }

\* the worlds of a preview: target table tC with columns amount and
\* amount_taxed, each tagged or not and fed by tA.amount or by nothing; the tags
\* of tA.amount; the statement that defines tC, if the job history has one
PolicyWorld ==
    /\ \E src_tags \in {{}, {"pii"}, {"pii", "fin"}},
          tgt_tags \in [{n_amount, n_amount_taxed} -> {{}, {"pii"}}],
          search \in [{n_amount, n_amount_taxed} ->
                        {Answered(<<>>), Answered(<<[fqn |-> tA, field |-> <<n_amount>>]>>)}],
          items \in PolicySelectLists :
          args = [op |-> "preview_policy_tag_propagation",
                  tags |-> [t \in {tA, tC} |-> IF t = tA THEN [c \in {n_amount} |-> src_tags]
                                              ELSE tgt_tags],
                  search |-> search,
                  sql |-> IF items = <<>> THEN <<>> ELSE RenderSql(x_select, items, "line")]
    /\ form \in {"record", "list"}
    /\ schema = <<>> /\ lineage = <<>> /\ knowledge = <<>> /\ mode = "report"
    /\ ret = NotReturned

\* one call of preview_policy_tag_propagation for table tC
PolicyPreviewCall ==
    /\ args.op = "preview_policy_tag_propagation" /\ ~ret.done
    /\ \E out \in {PreviewPolicyTags(args.tags, args.search, args.sql, tC,
                                     <<n_amount, n_amount_taxed>>, 1,
                                     [recommendations |-> <<>>, raised |-> FALSE])} :
          ret' = [done |-> TRUE, raised |-> out.raised, out |-> out.recommendations]
    /\ UNCHANGED <<args, varsWorld, varsResolve, varsPull, varsFind, varsScore, varsGlossary>>

(***************************************************************************)
(* AuthPlugin.before_run_callback and LineagePlugin._ensure_initialized    *)
(***************************************************************************)
MaxInvocations == 3    \* invocations served by one plugin instance

\* the value of session.state.get("oauth_token"): "none" for a missing token
SessionTokens == {"none", "u1", "u2", "u3"}

NotMade == [made |-> FALSE, token |-> "none"]

\* context.get_credentials: credentials of the context token, None without one
GetCredentials(ctx_token) == ctx_token

\* lineage_plugin.py lines 38-51: the traverser and the SQL fetcher are built
\* from the context on the first call only
EnsureInitialized(plugin, ctx_token) ==
    [plugin EXCEPT
       !.traverser   = IF ~@.made THEN [made |-> TRUE, token |-> ctx_token] ELSE @,
       !.sql_fetcher = IF ~@.made THEN [made |-> TRUE, token |-> GetCredentials(ctx_token)]
                       ELSE @]

\* _search_links lines 217-229, bigquery.Client(credentials=None): the bearer
\* of a request; application default credentials stand in for a missing token
Bearer(token) == IF token = "none" THEN "adc" ELSE token

\* the plugin instance after construction, under an empty context
AuthWorld ==
    /\ args = [op |-> "invocations", ctx_token |-> "none", served |-> 0, calls |-> 0,
               traverser |-> NotMade, sql_fetcher |-> NotMade]
    /\ ret = NotReturned

\* AuthPlugin.before_run_callback: the session's token replaces the context's,
\* a missing one clears it
BeforeRunCallback ==
    /\ args.op = "invocations" /\ args.served < MaxInvocations
    /\ \E token \in SessionTokens :
          args' = [args EXCEPT !.ctx_token = token, !.served = @ + 1, !.calls = 0]
    /\ ret' = NotReturned
    /\ UNCHANGED <<varsWorld, varsResolve, varsPull, varsFind, varsScore, varsGlossary>>

\* a tool call of the invocation through the plugin instance: _ensure_initialized,
\* then a lineage search and a read of the SQL history
PluginCall ==
    /\ args.op = "invocations" /\ args.served > 0 /\ args.calls < 2
    /\ \E plugin \in {EnsureInitialized([traverser |-> args.traverser,
                                         sql_fetcher |-> args.sql_fetcher], args.ctx_token)} :
          /\ args' = [args EXCEPT !.traverser = plugin.traverser,
                                  !.sql_fetcher = plugin.sql_fetcher, !.calls = @ + 1]
          /\ ret' = [done |-> TRUE, invocation |-> args.served,
                     expected |-> Bearer(args.ctx_token),
                     lineage_bearer |-> Bearer(plugin.traverser.token),
                     sql_bearer |-> Bearer(plugin.sql_fetcher.token)]
    /\ UNCHANGED <<varsWorld, varsResolve, varsPull, varsFind, varsScore, varsGlossary>>

(***************************************************************************)
(* The hints of a walk whose tables are defined by different statements    *)
(***************************************************************************)
MaxHops == 3           \* upstream tables of the walk

HopColumns == <<n_order_id, n_orderid, n_customer_id, n_qty, n_order>>

\* The previewed table t0 has the undescribed column order_id; upstream lies a
\* walk t1 .. tL under changing column names, described in one table only; the
\* statement of each table binds its column to a cast of the upstream column,
\* to the bare upstream column, or is not available.
HintWorld ==
    \E L \in 1..MaxHops :
    \E described \in 1..L, sq \in [0..(L - 1) -> {"none", "cast", "plain"}] :
       LET idx(t) == CHOOSE i \in 0..L : TableName(i) = t
           tabs   == {TableName(i) : i \in 0..L}
       IN  /\ schema = [t \in tabs |-> [c \in {HopColumns[idx(t) + 1]} |->
                           IF idx(t) = described THEN Plain(d_key) ELSE NoDesc]]
           /\ lineage = [t \in tabs |-> [c \in {HopColumns[idx(t) + 1]} |->
                           IF idx(t) < L
                           THEN Answered(<< [fqn |-> TableName(idx(t) + 1),
                                             field |-> <<HopColumns[idx(t) + 2]>>] >>)
                           ELSE Answered(<<>>)]]
           /\ sqlLogic = [t \in {x \in tabs : idx(x) < L /\ sq[idx(x)] # "none"} |->
                            [c \in {HopColumns[idx(t) + 1]} |->
                               IF sq[idx(t)] = "cast"
                               THEN <<s_cast, HopColumns[idx(t) + 2], <<")">>>>
                               ELSE <<HopColumns[idx(t) + 2]>>]]
           /\ form \in {"record", "list"}
           /\ knowledge = <<>> /\ mode = "report"

(***************************************************************************)
(* Several columns resolved in interleaved order                           *)
(***************************************************************************)
WalkLength == 2        \* upstream tables above the table whose columns are resolved

ResolvedColumns == <<n_order_id, n_qty>>

\* every top-level call is handed the one list of a mutable default argument
DefaultList(call) == 0

\* lines 85-86: accumulated_logic = None becomes a new list in every
\* top-level call; lists are heap cells, named by the call that made them
NewList(call) == call

\* Table t0 with the undescribed columns of ResolvedColumns; each column runs
\* up the walk t1 .. tL under its own name and is described in one table; the
\* statement of a table binds the column to a cast of its upstream column or
\* does not mention it.
InterleaveWorld ==
    \E described \in [SeqRange(ResolvedColumns) -> 1..WalkLength],
       sq \in [SeqRange(ResolvedColumns) -> [0..(WalkLength - 1) -> {"none", "cast"}]] :
       LET idx(t) == CHOOSE i \in 0..WalkLength : TableName(i) = t
           tabs   == {TableName(i) : i \in 0..WalkLength}
       IN  /\ schema = [t \in tabs |-> [c \in SeqRange(ResolvedColumns) |->
                           IF idx(t) = described[c] THEN Plain(d_key) ELSE NoDesc]]
           /\ lineage = [t \in tabs |-> [c \in SeqRange(ResolvedColumns) |->
                           IF idx(t) < WalkLength
                           THEN Answered(<< [fqn |-> TableName(idx(t) + 1), field |-> <<c>>] >>)
                           ELSE Answered(<<>>)]]
           /\ sqlLogic = [t \in {x \in tabs : idx(x) < WalkLength} |->
                            [c \in {x \in SeqRange(ResolvedColumns) : sq[x][idx(t)] = "cast"} |->
                               <<s_cast, c, <<")">>>>]]
           /\ form \in {"record", "list"}
           /\ knowledge = <<>> /\ mode = "report"
           /\ args = [op |-> "resolve_columns",
                      frames |-> [k \in DOMAIN ResolvedColumns |-> NoFrame],
                      refs   |-> [k \in DOMAIN ResolvedColumns |-> 0],
                      heap   |-> [r \in 0..Len(ResolvedColumns) |-> <<>>]]
           /\ ret = NotReturned

\* the top-level call _find_description_recursive(t0, column) is entered
ColumnStart(k) ==
    /\ args.op = "resolve_columns" /\ args.frames[k].status = "idle"
    /\ args' = [args EXCEPT !.frames[k] = StartFrame(PreviewTable, ResolvedColumns[k]),
                            !.refs[k] = NewList(k)]
    /\ UNCHANGED <<ret, varsWorld, varsResolve, varsPull, varsFind, varsScore, varsGlossary>>

\* one invocation for column k: the list the call holds is read from and
\* written to the heap
ColumnHop(k) ==
    /\ args.op = "resolve_columns" /\ args.frames[k].status = "run"
    /\ \E g \in {Hop([args.frames[k] EXCEPT !.acc = args.heap[args.refs[k]]])} :
          args' = [args EXCEPT !.frames[k] = g, !.heap[args.refs[k]] = g.acc]
    /\ UNCHANGED <<ret, varsWorld, varsResolve, varsPull, varsFind, varsScore, varsGlossary>>

vars == <<rq, mappings, schema, lineage, form, knowledge, mode, queue, pullLog, pull,
          sqlLogic, frame, preview, scoreIn, scoreOut, glossary, linkStore, applyLog, recsOut, args, ret>>

ResolveIdle == rq = [col |-> <<>>, answer |-> Answered(<<>>), depth |-> 0] /\ mappings = Pending

InitResolve == ResolveInputs /\ WorldIdle /\ PullIdle /\ FindIdle /\ ScoreIdle /\ GlossaryIdle /\ CallIdle
NextResolve == ResolveCall /\ UNCHANGED <<varsWorld, varsPull, varsFind, varsScore, varsGlossary, varsCall>>
SpecResolve == InitResolve /\ [][NextResolve]_vars

InitPull == PullWorld /\ PullIdle /\ ResolveIdle /\ FindIdle /\ ScoreIdle /\ GlossaryIdle /\ CallIdle
NextPull == PullRun /\ UNCHANGED <<varsResolve, varsFind, varsScore, varsGlossary, varsCall>>
SpecPull == InitPull /\ [][NextPull]_vars

InitFind == FindWorld /\ FindStart /\ ResolveIdle /\ PullIdle /\ ScoreIdle /\ GlossaryIdle /\ CallIdle
NextFind == PreviewStart \/ PreviewField \/ FindHop \/ FieldDone \/ PreviewReturn
SpecFind == InitFind /\ [][NextFind]_vars

InitScore == ScoreInputs /\ WorldIdle /\ ResolveIdle /\ PullIdle /\ FindIdle /\ GlossaryIdle /\ CallIdle
NextScore == RankCall
SpecScore == InitScore /\ [][NextScore]_vars

InitApply == ApplyWorld /\ WorldIdle /\ ResolveIdle /\ PullIdle /\ FindIdle /\ ScoreIdle /\ CallIdle
NextApply == ApplyCall
SpecApply == InitApply /\ [][NextApply]_vars

InitRecommend == RecommendWorld /\ ResolveIdle /\ PullIdle /\ FindIdle /\ ScoreIdle /\ CallIdle
NextRecommend == RecommendCall
SpecRecommend == InitRecommend /\ [][NextRecommend]_vars

InitPropagation == PropagationWorld /\ ResolveIdle /\ PullIdle /\ FindIdle /\ ScoreIdle /\ GlossaryIdle
NextPropagation == ApplyPropagationCall
SpecPropagation == InitPropagation /\ [][NextPropagation]_vars

InitLineage == LineageInputs /\ WorldIdle /\ ResolveIdle /\ PullIdle /\ FindIdle /\ ScoreIdle /\ GlossaryIdle
NextLineage == LineageCall
SpecLineage == InitLineage /\ [][NextLineage]_vars

InitRank == RankInputs /\ WorldIdle /\ ResolveIdle /\ PullIdle /\ FindIdle /\ ScoreIdle /\ GlossaryIdle
NextRank == RankOnlyCall
SpecRank == InitRank /\ [][NextRank]_vars

InitTotal == TotalInputs /\ WorldIdle /\ ResolveIdle /\ PullIdle /\ FindIdle /\ ScoreIdle /\ GlossaryIdle
NextTotal == TotalCall
SpecTotal == InitTotal /\ [][NextTotal]_vars

InitExtract == ExtractInputs /\ WorldIdle /\ ResolveIdle /\ PullIdle /\ FindIdle /\ ScoreIdle /\ GlossaryIdle
NextExtract == ExtractCall
SpecExtract == InitExtract /\ [][NextExtract]_vars

InitEnrich == EnrichInputs /\ WorldIdle /\ ResolveIdle /\ PullIdle /\ FindIdle /\ ScoreIdle /\ GlossaryIdle
NextEnrich == EnrichCall
SpecEnrich == InitEnrich /\ [][NextEnrich]_vars

InitDescribe == DescribeInputs /\ WorldIdle /\ ResolveIdle /\ PullIdle /\ FindIdle /\ ScoreIdle /\ GlossaryIdle
NextDescribe == DescribeCall
SpecDescribe == InitDescribe /\ [][NextDescribe]_vars

InitPush == PushWorld /\ ResolveIdle /\ PullIdle /\ FindIdle /\ ScoreIdle /\ GlossaryIdle
NextPush == PushRun
SpecPush == InitPush /\ [][NextPush]_vars

InitPolicy == PolicyWorld /\ ResolveIdle /\ PullIdle /\ FindIdle /\ ScoreIdle /\ GlossaryIdle
NextPolicy == PolicyPreviewCall
SpecPolicy == InitPolicy /\ [][NextPolicy]_vars

InitAuth == AuthWorld /\ WorldIdle /\ ResolveIdle /\ PullIdle /\ FindIdle /\ ScoreIdle /\ GlossaryIdle
NextAuth == BeforeRunCallback \/ PluginCall
SpecAuth == InitAuth /\ [][NextAuth]_vars

InitHints == HintWorld /\ FindStart /\ ResolveIdle /\ PullIdle /\ ScoreIdle /\ GlossaryIdle /\ CallIdle
NextHints == PreviewStart \/ PreviewField \/ FindHop \/ FieldDone \/ PreviewReturn
SpecHints == InitHints /\ [][NextHints]_vars

InitInterleave == InterleaveWorld /\ FindStart /\ ResolveIdle /\ PullIdle /\ ScoreIdle /\ GlossaryIdle
NextInterleave == \E k \in DOMAIN ResolvedColumns : ColumnStart(k) \/ ColumnHop(k)
SpecInterleave == InitInterleave /\ [][NextInterleave]_vars

\* the three propagation entry points, each in its own worlds
InitPropagators == InitPull \/ InitFind \/ InitPush
NextPropagators ==
    \/ (args.op = "none" /\ TargetTable \in DOMAIN schema /\ NextPull)
    \/ (PreviewTable \in DOMAIN schema /\ NextFind)
    \/ NextPush
SpecPropagators == InitPropagators /\ [][NextPropagators]_vars

(***************************************************************************)
(* Properties of one upstream resolution call (SpecResolve)                *)
(***************************************************************************)
Called == mappings # Pending

\* the candidates of the call, in the order the loops meet them:
\* <<i, j>> is source field j of link i
Candidates ==
    UNION { {<<i, j>> : j \in 1..Len(rq.answer.links[i].field)} :
              i \in {k \in DOMAIN rq.answer.links : rq.answer.links[k].fqn # NoName} }

CandField(p)  == rq.answer.links[p[1]].field[p[2]]
CandFqn(p)    == rq.answer.links[p[1]].fqn
CandCount(p)  == Len(rq.answer.links[p[1]].field)
CandScore(p)  == Score(rq.col, CandField(p), CandCount(p))
Earlier(p, q) == p[1] < q[1] \/ (p[1] = q[1] /\ p[2] < q[2])

\* C7: get_column_lineage returns at most one match for the requested column:
\* the candidate with the highest score over all links and all their source
\* fields, the first one met (link order, then field order) winning ties; a
\* column whose lookup fails, has no link, or has only links without a source
\* name or without source fields is absent from the result.
C7_SingleBestMatch ==
    Called =>
        /\ DOMAIN mappings \subseteq {rq.col}
        /\ (rq.answer.raises \/ Candidates = {}) => rq.col \notin DOMAIN mappings
        /\ (rq.depth < TraverserMaxDepth /\ ~rq.answer.raises /\ Candidates # {}) =>
              /\ rq.col \in DOMAIN mappings
              /\ \E p \in Candidates :
                    /\ mappings[rq.col].source_fqn = CandFqn(p)
                    /\ mappings[rq.col].source_column = CandField(p)
                    /\ mappings[rq.col].confidence = Round2(CandScore(p))
                    /\ \A q \in Candidates :
                          /\ CandScore(q) <= CandScore(p)
                          /\ Earlier(q, p) => CandScore(q) < CandScore(p)

\* a call in which two candidates of different links tie at the top score and
\* the one of the first link is returned
C7_Witness ==
    /\ Called
    /\ rq.col \in DOMAIN mappings
    /\ \E p \in Candidates, q \in Candidates :
          /\ p[1] < q[1]
          /\ CandFqn(p) # CandFqn(q)
          /\ CandScore(p) = CandScore(q)
          /\ \A r \in Candidates : CandScore(r) <= CandScore(p)
          /\ mappings[rq.col].source_fqn = CandFqn(p)

\* the base score as the specification words it, in hundredths
ClaimedBase(col, src, nfields) ==
    CASE src = col                                       -> 100
      [] src # col /\ Lower(src) = Lower(col)            -> 95
      [] Lower(src) # Lower(col)
         /\ RemoveUnderscores(src) = RemoveUnderscores(col) -> 90
      [] Lower(src) # Lower(col)
         /\ RemoveUnderscores(src) # RemoveUnderscores(col)
         /\ (Contains(col, src) \/ Contains(src, col))   -> 80
      [] OTHER -> IF nfields = 1 THEN 70 ELSE 50

\* C8: the confidence of a returned match is base x penalty rounded to two
\* decimals, base being the first applicable of identical names 1.0, equal
\* ignoring case 0.95, equal without underscores 0.9, containment 0.8, single
\* source field 0.7, otherwise 0.5, and penalty the semantic-mismatch
\* multiplier; the match is flagged as penalised exactly when penalty < 1.
C8_ScoreIsBaseTimesPenalty ==
    (Called /\ rq.col \in DOMAIN mappings) =>
        \E p \in Candidates :
            /\ mappings[rq.col].source_fqn = CandFqn(p)
            /\ mappings[rq.col].source_column = CandField(p)
            /\ mappings[rq.col].confidence =
                  Round2(ClaimedBase(rq.col, CandField(p), CandCount(p))
                         * check_semantic_mismatch(rq.col, CandField(p)))
            /\ mappings[rq.col].semantic_penalty =
                  (check_semantic_mismatch(rq.col, CandField(p)) < 10)

\* a call answered with one link of one source field whose name only shares
\* nothing with the column: base 0.7, no penalty (the repository's test case)
C8_Witness ==
    /\ Called
    /\ rq.col = n_qty
    /\ rq.answer.links = << [fqn |-> tA, field |-> <<n_order_id>>] >>
    /\ rq.col \in DOMAIN mappings
    /\ mappings[rq.col].confidence = 70

(***************************************************************************)
(* Properties of propagate_pull (SpecPull)                                 *)
(***************************************************************************)
\* the rows a step appends to the review file for one column
RowsAddedFor(col) ==
    { i \in (Len(queue) + 1)..Len(queue') : queue'[i].column = col }

\* the log entries of columns for which a candidate reached the decision
Handled(entry) == entry.event \notin {"NO_CANDIDATES", "HAS_DESCRIPTION"}

\* C1: in apply mode every candidate confidence x has exactly one outcome:
\* x > 0.90 writes the description to the target column and queues nothing;
\* 0.70 <= x <= 0.90 queues one PENDING row carrying source and confidence and
\* leaves the column unwritten; x < 0.70 neither writes nor queues.
C1_ThreeBands ==
    [][ (mode = "apply" /\ pull'.runs = pull.runs + 1) =>
          \A i \in DOMAIN pullLog' :
             LET e == pullLog'[i]
                 x == e.confidence
             IN  Handled(e) =>
                   /\ x > 90 =>
                        /\ schema'[TargetTable][e.column] = e.desc
                        /\ RowsAddedFor(e.column) = {}
                   /\ (70 <= x /\ x <= 90) =>
                        /\ schema'[TargetTable][e.column] = schema[TargetTable][e.column]
                        /\ Cardinality(RowsAddedFor(e.column)) = 1
                        /\ \A r \in RowsAddedFor(e.column) :
                              /\ queue'[r].status = "PENDING"
                              /\ queue'[r].confidence = x
                              /\ queue'[r].source = e.source
                              /\ queue'[r].proposed_description = e.desc
                   /\ x < 70 =>
                        /\ schema'[TargetTable][e.column] = schema[TargetTable][e.column]
                        /\ RowsAddedFor(e.column) = {}
      ]_vars

\* after one apply run: a candidate of confidence exactly 0.90 was queued and
\* one of 0.91 was written
C1_Witness ==
    /\ mode = "apply" /\ pull.runs = 1
    /\ \E i \in DOMAIN pullLog, j \in DOMAIN pullLog :
          /\ pullLog[i].confidence = 90 /\ Handled(pullLog[i])
          /\ pullLog[j].confidence = 91 /\ Handled(pullLog[j])
          /\ schema[TargetTable][pullLog[j].column] = pullLog[j].desc
          /\ schema[TargetTable][pullLog[i].column] = NoDesc
          /\ Len(queue) = 1 /\ queue[1].column = pullLog[i].column

\* C4: a further apply run over unchanged source metadata leaves the metadata
\* store and the review queue as the run before it left them.
C4_RepeatedRunChangesNothing ==
    [][ (mode = "apply" /\ pull.runs >= 1 /\ pull'.runs = pull.runs + 1) =>
          (schema' = schema /\ queue' = queue) ]_vars

(***************************************************************************)
(* Properties of preview_propagation and the recursive search (SpecFind)   *)
(***************************************************************************)
\* the column of the previewed table that the walk starts from
ChainColumn == CHOOSE c \in DOMAIN schema[PreviewTable] : c # n_qty

\* the source the lineage links name for a column, if any
LinkedSource(t, c) ==
    IF t \in DOMAIN lineage /\ c \in DOMAIN lineage[t] /\ lineage[t][c].links # <<>>
    THEN [t |-> lineage[t][c].links[1].fqn, c |-> lineage[t][c].links[1].field[1]]
    ELSE Null

\* the source column d hops above the chain column (hop 0 is the direct source)
RECURSIVE SourceAtHop(_)
SourceAtHop(d) ==
    IF d = 0 THEN LinkedSource(PreviewTable, ChainColumn)
    ELSE LET below == SourceAtHop(d - 1)
         IN  IF below = Null THEN Null ELSE LinkedSource(below.t, below.c)

DescriptionAtHop(d) == schema[SourceAtHop(d).t][SourceAtHop(d).c]

FirstDescribedAt(d) ==
    /\ \A e \in 0..d : SourceAtHop(e) # Null
    /\ HasDesc(DescriptionAtHop(d))
    /\ \A e \in 0..(d - 1) : ~HasDesc(DescriptionAtHop(e))

\* the search for a column of the previewed table has just answered
Answering(column) ==
    /\ preview.status = "scan" /\ preview.waiting
    /\ frame.status \in {"found", "none", "KeyError"}
    /\ PreviewColumns[preview.i] = column

PreviewEnded == preview.status \in {"returned", "KeyError"}

\* tC <- tB <- tA: t0 reads t1, t1 reads t2, only t2 is described
Chain3 ==
    /\ DOMAIN schema = {TableName(0), TableName(1), TableName(2)}
    /\ SourceAtHop(0) = [t |-> TableName(1), c |-> n_order_id]
    /\ SourceAtHop(1) = [t |-> TableName(2), c |-> n_order_id]
    /\ SourceAtHop(2) = Null
    /\ FirstDescribedAt(1)

RowsFor(column) ==
    SelectSeq(preview.candidates, LAMBDA row : row.Target_Column = column)

\* C2: on a chain C <- B <- A whose column is described in A only (a text
\* without closing period, no transformation statement at hand), with the
\* traverser answering one match record per column, preview_propagation on C
\* returns exactly one row for the column: source A, A's description, hop 1
C2_ChainPreviewOneRecord ==
    ( /\ PreviewEnded /\ form = "record" /\ sqlLogic = <<>>
      /\ Chain3
      /\ DescriptionAtHop(1).text = WithoutTrailingPeriod(Strip(DescriptionAtHop(1).text)) )
    => /\ preview.status = "returned"
       /\ Len(RowsFor(ChainColumn)) = 1
       /\ RowsFor(ChainColumn)[1].Source = TableName(2)
       /\ RowsFor(ChainColumn)[1].Proposed_Description
             = [text |-> DescriptionAtHop(1).text, hints |-> <<>>]
       /\ RowsFor(ChainColumn)[1].Type = [base |-> "Lineage", hop |-> <<1>>]

\* C5: with sources handed over as candidate lists, a first description at hop
\* depth d, 0 <= d <= 4, is returned with hop_depth = d
C5_FindsWithinFiveHops ==
    \A d \in 0..(PluginMaxDepth - 1) :
       (form = "list" /\ Answering(ChainColumn) /\ FirstDescribedAt(d))
       => /\ frame.status = "found"
          /\ frame.result.hop_depth = d
          /\ frame.result.description = DescriptionAtHop(d)

NoDescriptionUpstream ==
    \A t \in DOMAIN schema : \A c \in DOMAIN schema[t] \ {n_qty} : ~HasDesc(schema[t][c])

\* C6: where no column of the walk is described, cycles included, the search
\* returns no match after at most max_depth lookups, below depth max_depth
C6_NoMatchWithinMaxDepth ==
    (Answering(ChainColumn) /\ NoDescriptionUpstream)
    => /\ frame.status = "none"
       /\ frame.lookups <= PluginMaxDepth
       /\ frame.depth < PluginMaxDepth

(***************************************************************************)
(* Properties of get_ranked_suggestions (SpecScore)                        *)
(***************************************************************************)
\* the semantic signal of every term lies in [0,1]
SignalsInUnitRange ==
    \A i \in DOMAIN scoreIn.terms :
       scoreIn.embs[i].has => (scoreIn.embs[i].cosine >= 0 /\ scoreIn.embs[i].cosine <= 100)

\* C9: with lexical and semantic signals in [0,1], every total computed by
\* calculate_total_score and every confidence of a returned suggestion lies
\* in [0,1]
C9_TotalInUnitRange ==
    (scoreOut.called /\ SignalsInUnitRange)
    => /\ \A i \in DOMAIN scoreOut.signals :
             scoreOut.signals[i].total >= 0 /\ scoreOut.signals[i].total <= 100
       /\ \A k \in DOMAIN scoreOut.suggestions :
             /\ scoreOut.suggestions[k].confidence >= 0
             /\ scoreOut.suggestions[k].confidence <= 100

(***************************************************************************)
(* Properties of apply_terms (SpecApply)                                   *)
(***************************************************************************)
\* a call that logged no error: every update created its link or found it
WithoutError(call) ==
    \A i \in DOMAIN call.outcomes : call.outcomes[i].logged = "info"

\* C3: when apply_terms has gone through the updates without error, a further
\* call with the same updates (in any order) has every link creation answered
\* "already exists", logs no error, processes every update, and leaves the set
\* of links as it was; the links are the same after any repeated call
C3_SecondApplyAlreadyExists ==
    \A k \in 2..Len(applyLog) :
       /\ applyLog[k].links = applyLog[k - 1].links
       /\ Len(applyLog[k].outcomes) = Len(glossary.updates)
       /\ WithoutError(applyLog[k - 1])
          => \A i \in DOMAIN applyLog[k].outcomes :
                /\ applyLog[k].outcomes[i].result = "already exists"
                /\ applyLog[k].outcomes[i].logged = "info"

C3_Witness ==
    /\ Len(applyLog) = 2 /\ Len(glossary.updates) = 2
    /\ WithoutError(applyLog[1])
    /\ \E i \in DOMAIN applyLog[1].outcomes : applyLog[1].outcomes[i].result = "created"
    /\ \A i \in DOMAIN applyLog[2].outcomes : applyLog[2].outcomes[i].result = "already exists"
    /\ applyLog[2].updates # applyLog[1].updates
    /\ applyLog[2].links = applyLog[1].links /\ applyLog[1].links # applyLog[1].before

(***************************************************************************)
(* Properties of recommend_terms_for_table (SpecRecommend)                 *)
(***************************************************************************)
\* C10: a resolver match or a lineage-based term recommendation of confidence
\* 1.0 is a direct match whose source column has the target column's name
C10_FullConfidenceOnlyIdenticalDirect ==
    recsOut.called
    => /\ \A c \in DOMAIN recsOut.upstream :
             recsOut.upstream[c].confidence = 100
             => (recsOut.upstream[c].source_column = c /\ recsOut.upstream[c].hop_depth = 0)
       /\ \A k \in DOMAIN recsOut.recommendations :
             LET rec == recsOut.recommendations[k]
             IN  (rec.Rationale.kind = "lineage" /\ rec.Confidence = 100)
                 => recsOut.upstream[rec.Column].source_column = rec.Column

\* C11: the link id identifies its target column: an update is answered
\* "already exists" only when the link held under its id is the link of that
\* column of that table of that dataset
C11_LinkIdIdentifiesColumn ==
    \A k \in DOMAIN applyLog : \A i \in DOMAIN applyLog[k].outcomes :
       LET o == applyLog[k].outcomes[i]
       IN  o.result = "already exists"
           => /\ applyLog[k].links[o.link_id].source = Entity(glossary.dataset, glossary.table)
              /\ Lower(applyLog[k].links[o.link_id].path) = Lower(o.column)

(***************************************************************************)
(* Properties of apply_propagation (SpecPropagation)                       *)
(***************************************************************************)
\* C12: a failure on one item does not abort the batch: every item of the list
\* is attempted
C12_BatchAttemptsEveryItem ==
    ret.done => \A i \in DOMAIN args.updates : \E j \in DOMAIN ret.attempted : ret.attempted[j] = i

(***************************************************************************)
(* Properties of the lineage lookups over several columns (SpecLineage)    *)
(***************************************************************************)
\* the columns of the call whose lookup fails or answers no link
NoLineageColumns == {c \in SeqRange(args.columns) : args.search[c].raises \/ args.search[c].links = <<>>}

NotColumn(c) == [d \in LineageColumns |-> d # c]

\* the same call without column c
Without(c) == [args EXCEPT !.columns = SelectSeq(@, LAMBDA d : NotColumn(c)[d])]

\* C13: a failed or empty lookup for one column counts as no lineage for that
\* column only: no error leaves the call, each column is looked up once, a
\* failed lookup gives what an empty answer gives, and every other column gets
\* what it gets when the column is not asked for
C13_FailedLookupIsolated ==
    ret.done =>
       /\ ~ret.out.raised
       /\ ret.out.lookups = args.columns
       /\ \A c \in NoLineageColumns :
             /\ ret.out.mappings = LineageOf([args EXCEPT !.search[c] = Answered(<<>>)]).mappings
             /\ \A d \in SeqRange(args.columns) \ {c} :
                   /\ d \in DOMAIN ret.out.mappings <=> d \in DOMAIN LineageOf(Without(c)).mappings
                   /\ d \in DOMAIN ret.out.mappings => ret.out.mappings[d] = LineageOf(Without(c)).mappings[d]

\* a call of two columns has returned: the lookup of the first failed and the
\* second has lineage
C13_Witness ==
    /\ ret.done /\ Len(args.columns) = 2 /\ args.columns[1] # args.columns[2]
    /\ args.search[args.columns[1]].raises
    /\ args.columns[2] \in DOMAIN ret.out.mappings

(***************************************************************************)
(* Properties of the ranking of a long glossary (SpecRank)                 *)
(***************************************************************************)
TotalOf(i) == args.signals[i].total

\* the terms that reach the floor
AtFloor == {i \in DOMAIN args.terms : TotalOf(i) >= 30}

\* the terms that reach the floor and, when the top total exceeds 0.45, 70% of it
Competitive ==
    {i \in AtFloor : \A j \in AtFloor : TotalOf(j) > 45 => 10 * TotalOf(i) >= 7 * TotalOf(j)}

\* C14: the suggestions are the competitive terms at or above the floor, highest
\* total first, cut to the first five: at most five entries, in non-increasing
\* confidence order, none below 0.30, none left out that beats one returned, and
\* not empty when a term reaches the floor
C14_RankedSuggestionsExact ==
    ret.done =>
       /\ Len(ret.out) = Min(5, Cardinality(Competitive))
       /\ \A k \in DOMAIN ret.out : \E i \in Competitive :
             /\ ret.out[k].term_name = args.terms[i].name
             /\ ret.out[k].confidence = TotalOf(i)
       /\ \A k, l \in DOMAIN ret.out :
             k < l => /\ ret.out[k].term_name # ret.out[l].term_name
                      /\ ret.out[k].confidence >= ret.out[l].confidence
       /\ \A k \in DOMAIN ret.out : ret.out[k].confidence >= 30
       /\ \A i \in Competitive :
             (\A k \in DOMAIN ret.out : ret.out[k].term_name # args.terms[i].name)
             => \A k \in DOMAIN ret.out : ret.out[k].confidence >= TotalOf(i)
       /\ AtFloor # {} => ret.out # <<>>

\* six terms pass both filters, the first with the lowest total and the last
\* with the highest: five come back
C14_Witness ==
    /\ ret.done /\ Cardinality(Competitive) = 6 /\ Len(ret.out) = 5
    /\ TotalOf(1) = 70 /\ TotalOf(6) = 100

(***************************************************************************)
(* Properties of calculate_total_score (SpecTotal)                         *)
(***************************************************************************)
\* C15: column transaction_id against a term displayed as 'Customer Identifier'
\* totals below the 0.30 floor, whatever the descriptions and the semantic
\* signal in [0,1]
C15_TransactionIdBelowFloor ==
    (/\ ret.done
     /\ args.column.name = n_transaction_id
     /\ args.term.display_name = t_Customer_Identifier)
    => ret.out.total < 30

\* the entities of the call's column and term
ColEntity == GetPrimaryEntity(args.column.name)
TermEntity ==
    OrElse(GetPrimaryEntity(args.term.display_name), GetPrimaryEntity(TermIdBase(args.term)))

\* C16: the 0.30 penalty is applied exactly when the entities of column and term
\* both resolve, differ, and are not order/transaction, item/product,
\* amount/price or date/timestamp
C16_PenaltyIffIncompatibleEntities ==
    ret.done =>
       (ret.conflict <=>
          /\ ColEntity # "" /\ TermEntity # "" /\ ColEntity # TermEntity
          /\ {ColEntity, TermEntity} \notin
                { {"order", "transaction"}, {"item", "product"}, {"amount", "price"},
                  {"date", "timestamp"} })

\* C17: a term displayed exactly as the column name has lexical component 1.0,
\* whatever its identifier
C17_OwnNameLexicalOne ==
    (ret.done /\ args.term.display_name = args.column.name) => ret.out.lexical = 100

(***************************************************************************)
(* Properties of extract_column_logic (SpecExtract)                        *)
(***************************************************************************)
\* the items of the statement that bind column c
BindingsOf(c) == {i \in DOMAIN args.items : args.items[i].column = c}

\* C18: the column name is matched as a whole word after AS: a statement that
\* binds amount_discounted or amount_taxed and does not bind amount gives None
\* for amount, and 'SELECT a.amount_discounted AS amount_discounted, a.amount
\* AS amount FROM t' gives 'a.amount'
C18_WholeWordAfterAs ==
    (ret.done /\ args.target_col = n_amount)
    => /\ (/\ BindingsOf(n_amount_discounted) \cup BindingsOf(n_amount_taxed) # {}
           /\ BindingsOf(n_amount) = {})
          => ~ret.found
       /\ args.sql = x_literal => (ret.found /\ ret.out = x_a_amount)

\* the statement of the claim has been searched for amount
C18_Witness ==
    ret.done /\ args.target_col = n_amount /\ args.sql = x_literal /\ ret.found

\* C19: when the select list binds the column, the result is the whole
\* expression of the binding, commas included; otherwise it is None
C19_WholeExpression ==
    ret.done =>
       IF BindingsOf(args.target_col) = {} THEN ~ret.found
       ELSE /\ ret.found
            /\ ret.out = args.items[SetMin(BindingsOf(args.target_col))].expr

(***************************************************************************)
(* Properties of enrich_description (SpecEnrich)                           *)
(***************************************************************************)
\* the expressions worded in the enriched description
Worded == {ret.out.hints[j].expr : j \in DOMAIN ret.out.hints}

\* C20: a hint that is exactly the target or the source column name, bare,
\* qualified or back-quoted, adds nothing to the description, and the
\* transforming hints of the same list are all worded
C20_PassthroughHintsDropped ==
    ret.done =>
       \A i \in DOMAIN args.sql_hints :
          /\ args.sql_hints[i] \in PassthroughHints(args.target_col) \cup PassthroughHints(args.source_col)
             => args.sql_hints[i] \notin Worded
          /\ args.sql_hints[i] \in TransformHints => args.sql_hints[i] \in Worded

(***************************************************************************)
(* Properties of describe_sql_logic (SpecDescribe)                         *)
(***************************************************************************)
\* the families in their order of priority, each with the keywords that show it
Families ==
    << [kind |-> "converted", keys |-> {k_CAST, k_SAFE_CAST}],
       [kind |-> "null-handling", keys |-> {k_COALESCE, k_IFNULL, k_NULLIF}],
       [kind |-> "rounded", keys |-> {k_ROUND, k_CEIL, k_FLOOR, k_TRUNC}],
       [kind |-> "adjusted", keys |-> {}],
       [kind |-> "string", keys |-> {k_UPPER, k_LOWER, k_TRIM, k_CONCAT, k_SUBSTR}],
       [kind |-> "temporal", keys |-> {k_EXTRACT}],
       [kind |-> "conditional", keys |-> {k_CASE, k_IF}],
       [kind |-> "safe", keys |-> {k_SAFE_dot}] >>

\* family f shows in the text: one of its keywords, or for the arithmetic
\* family an operator together with a digit
Shows(f, text) ==
    IF Families[f].kind = "adjusted"
    THEN /\ \E i \in DOMAIN text : text[i] \in {"*", "/", "+", "-"}
         /\ \E i \in DOMAIN text : text[i] \in Digits
    ELSE \E key \in Families[f].keys : Contains(key, Upper(text))

ShownFamilies == {f \in DOMAIN Families : Shows(f, JoinWords(args.expr))}

\* C21: a non-empty expression gets the first family, in the order of
\* priority, whose keyword or operator it shows, and the wording quotes it; with
\* none it is unclassified and quoted verbatim; the empty expression gets an
\* empty fragment
C21_FirstFamilyWins ==
    ret.done =>
       IF args.expr = <<>> THEN ret.out.kind = ""
       ELSE /\ ret.out.expr = args.expr
            /\ ret.out.kind = IF ShownFamilies = {} THEN "calculated"
                              ELSE Families[SetMin(ShownFamilies)].kind

\* an expression that shows a conditional inside a rounding inside a cast has
\* been worded as a conversion
C21_Witness ==
    /\ ret.done /\ {1, 3, 7} \subseteq ShownFamilies /\ ret.out.kind = "converted"

(***************************************************************************)
(* Properties of the merge of relationship hints (SpecLineage)             *)
(***************************************************************************)
\* candidate x names the table and column candidate y names
SameTarget(x, y) == x.target_fqn = y.target_fqn /\ x.target_column = y.target_column

\* C22: in the list of a source column the relationship hints come after all
\* candidates of the lineage graph, and no hint names the table and column of a
\* candidate before it
C22_HintsDeduplicated ==
    (ret.done /\ args.op = "get_downstream_lineage") =>
       \A c \in DOMAIN ret.out.mappings :
          LET targets == ret.out.mappings[c]
          IN  \A j, k \in DOMAIN targets :
                 (j < k /\ targets[k].source = "KNOWLEDGE_ENGINE")
                 => ~SameTarget(targets[j], targets[k])

(***************************************************************************)
(* Properties of propagate_push (SpecPush)                                 *)
(***************************************************************************)
\* what get_downstream_lineage returns for the source table of the run
Downstream ==
    DownstreamLoop(args.search, args.insights, SourceTable,
                   ColumnsOf(ret.before[SourceTable]), 1, NoMappings).mappings

\* the source columns that have a description and name the candidate's target
FeedersOf(target) ==
    {c \in DOMAIN Downstream :
        /\ HasDesc(ret.before[SourceTable][c])
        /\ \E j \in DOMAIN Downstream[c] : SameTarget(Downstream[c][j], target)}

\* C23: in apply mode the run ends without error and every downstream target
\* column that was empty, graph-sourced or hint-sourced, of a described source
\* column holds a description of the source columns that feed it
C23_PushWritesEveryEmptyTarget ==
    (ret.done /\ mode = "apply") =>
       /\ ~ret.raised
       /\ \A c \in DOMAIN Downstream : \A j \in DOMAIN Downstream[c] :
             LET target == Downstream[c][j]
                 t == target.target_fqn
                 col == target.target_column
             IN  (/\ HasDesc(ret.before[SourceTable][c])
                  /\ t \in DOMAIN ret.before /\ col \in DOMAIN ret.before[t]
                  /\ ~HasDesc(ret.before[t][col]))
                 => schema[t][col] \in {ret.before[SourceTable][f] : f \in FeedersOf(target)}

(***************************************************************************)
(* Properties of preview_policy_tag_propagation (SpecPolicy)               *)
(***************************************************************************)
\* the target columns whose source column carries tags
TaggedSourceColumns ==
    {c \in DOMAIN args.search : args.search[c].links # <<>> /\ args.tags[tA][n_amount] # {}}

\* the target columns that already carry all tags of their source
Covered == {c \in TaggedSourceColumns : args.tags[tA][n_amount] \subseteq args.tags[tC][c]}

\* the statement binds column c to an expression
LogicFor(c) == {i \in 1..Len(args.sql) : extract_column_logic(args.sql, c).found}

\* C24: the preview ends without error; a target column whose source carries
\* tags it lacks gets one recommendation, 'Propagate' exactly when it has the
\* source column's name and its SQL logic is absent or the source column name,
\* back-quoted or not, and 'Review Required (Transformed)' otherwise; a column
\* that carries all tags of its source gets none
C24_PropagateIffStraightPull ==
    ret.done =>
       /\ ~ret.raised
       /\ \A c \in TaggedSourceColumns \ Covered :
             \E k \in DOMAIN ret.out :
                /\ ret.out[k].Target_Column = c
                /\ ret.out[k].Recommendation = "Propagate"
                   <=> /\ c = n_amount
                       /\ \/ LogicFor(c) = {}
                          \/ extract_column_logic(args.sql, c).out \in {n_amount, BackQuoted(n_amount)}
       /\ \A k \in DOMAIN ret.out :
             /\ ret.out[k].Target_Column \in TaggedSourceColumns \ Covered
             /\ ret.out[k].Recommendation \in {"Propagate", "Review Required (Transformed)"}
             /\ \A l \in DOMAIN ret.out : ret.out[l].Target_Column = ret.out[k].Target_Column => l = k

\* the preview as run on candidate lists: the claim's rule with the traverser's
\* match records set aside
C24_OnCandidateLists == form = "list" => C24_PropagateIffStraightPull

(***************************************************************************)
(* Properties of apply_terms on a column that is already linked (SpecApply)*)
(***************************************************************************)
\* C25: after an update (column, term) that apply_terms handled without logging
\* an error, the catalog holds a link from that column to that term, also when
\* the column was linked to another term before
C25_HandledUpdateIsLinked ==
    \A k \in DOMAIN applyLog : \A i \in DOMAIN applyLog[k].outcomes :
       LET o == applyLog[k].outcomes[i]
       IN  o.logged = "info"
           => /\ o.link_id \in DOMAIN applyLog[k].links
              /\ applyLog[k].links[o.link_id].source = Entity(glossary.dataset, glossary.table)
              /\ Lower(applyLog[k].links[o.link_id].path) = Lower(o.column)
              /\ applyLog[k].links[o.link_id].target.name = o.term_id

(***************************************************************************)
(* Confidence and hints of a multi-hop match (SpecFind)                    *)
(***************************************************************************)
\* the table and column whose upstream is looked up at hop d
HopTarget(d) == IF d = 0 THEN [t |-> PreviewTable, c |-> ChainColumn] ELSE SourceAtHop(d - 1)

\* the confidence get_column_lineage gives the source of hop d
ResolverConfidence(d) ==
    LET h == HopTarget(d)
    IN  ColumnSources(GetColumnLineage(SearchOf(h.t, <<h.c>>), <<h.c>>, d, TraverserMaxDepth),
                      h.c).items[1].confidence

C27_CallsUseCurrentCredentials ==
    ret.done => (ret.lineage_bearer = ret.expected /\ ret.sql_bearer = ret.expected)

(***************************************************************************)
(* Existing descriptions under propagation (SpecPropagators)               *)
(***************************************************************************)
\* the rows of the review queue and the decisions of the run's log that
\* propose a description for column c of table t
ProposedIn(rows, log, t, c) ==
    {r \in DOMAIN rows : rows[r].table = t /\ rows[r].column = c}
    \cup {-i : i \in {j \in DOMAIN log : /\ t = TargetTable /\ log[j].column = c
                                         /\ log[j].event # "HAS_DESCRIPTION"}}

\* C28: a column that is described when propagate_pull, propagate_push or
\* preview_propagation reads its schema keeps its description over the run,
\* and no description is queued, decided or previewed for it
C28_NeverOverwrites ==
    [][ \A t \in DOMAIN schema : \A c \in DOMAIN schema[t] :
           schema[t][c] # NoDesc
           => /\ t \in DOMAIN schema' /\ c \in DOMAIN schema'[t]
              /\ schema'[t][c] = schema[t][c]
              /\ ProposedIn(queue', pullLog', t, c) \subseteq ProposedIn(queue, <<>>, t, c)
              /\ t = PreviewTable
                 => \A k \in DOMAIN preview'.candidates :
                       preview'.candidates[k].Target_Column # c ]_vars

\* an apply run of propagate_pull has skipped a described column and written
\* the other one
C28_Witness ==
    /\ mode = "apply" /\ pull.runs = 1 /\ pull.ended = "finished"
    /\ \E i \in DOMAIN pullLog, j \in DOMAIN pullLog :
          /\ pullLog[i].event = "HAS_DESCRIPTION"
          /\ schema[TargetTable][pullLog[i].column] = Plain(d_old)
          /\ pullLog[j].event = "AUTO_APPLY"
          /\ schema[TargetTable][pullLog[j].column] = pullLog[j].desc

(***************************************************************************)
(* Order of the accumulated hints (SpecHints)                              *)
(***************************************************************************)
\* the expressions the statements of the targets of hops k..d bind, in hop order
RECURSIVE HintsOfHops(_, _)
HintsOfHops(k, d) ==
    IF k > d THEN <<>>
    ELSE LET logic == LogicOf(HopTarget(k).t, HopTarget(k).c)
         IN  (IF logic = <<>> THEN <<>> ELSE <<logic>>) \o HintsOfHops(k + 1, d)

\* C29: the hints of a match found at hop depth d are those of the hops 0..d
\* in traversal order, downstream first: one per hop whose target table's
\* statement binds the column, and none of a table beyond the match
C29_HintsInTraversalOrder ==
    frame.status = "found"
    => frame.result.accumulated_logic = HintsOfHops(0, frame.result.hop_depth)

\* a match at hop depth 2 with the hints of hops 0 and 2, none at hop 1, and a
\* statement on the table beyond the match
C29_Witness ==
    /\ frame.status = "found" /\ frame.result.hop_depth = 2
    /\ frame.result.accumulated_logic = << <<s_cast, n_orderid, <<")">>>>, <<n_qty>> >>
    /\ TableName(1) \notin DOMAIN sqlLogic

(***************************************************************************)
(* Columns resolved in any interleaving (SpecInterleave)                   *)
(***************************************************************************)
\* the search for a column run from its first invocation to its answer
RECURSIVE FindAlone(_)
FindAlone(f) == IF f.status # "run" THEN f ELSE FindAlone(Hop(f))

\* C30: however the invocations for several columns interleave, a column's
\* search ends as it ends when the column is resolved alone: same match,
\* confidence, hop depth and hint list, or the same failure
C30_InterleavingChangesNothing ==
    \A k \in DOMAIN args.frames :
       args.frames[k].status \in {"found", "none", "KeyError"}
       => args.frames[k] = FindAlone(StartFrame(PreviewTable, ResolvedColumns[k]))

\* both columns were found at hop depth 1, each with the two hints of its own
\* walk
C30_Witness ==
    /\ \A k \in DOMAIN args.frames :
          /\ args.frames[k].status = "found" /\ args.frames[k].result.hop_depth = 1
          /\ Len(args.frames[k].result.accumulated_logic) = 2
    /\ args.frames[1].result.accumulated_logic # args.frames[2].result.accumulated_logic

====
